---- MODULE Spec2Model ----
(***************************************************************************)
(* Knowledge consolidation engine of the loom backend                      *)
(* (backend/app/services/graph_rag.py, backend/app/api/endpoints/*.py).    *)
(*                                                                         *)
(* The Graph Store (ArangoDB) is modelled by its collections:              *)
(*   Sessions, Seeds, UserSeeds, Concepts     document collections         *)
(*   Relationships, ConceptSessionLinks       edge collections             *)
(* Relationships is a bag of (from, to, type) triples: the collection has  *)
(* no unique index, so the same triple can be stored more than once.       *)
(* Mastery is kept in hundredths (0.05 = 5, 1.0 = 100), cosine similarity  *)
(* in thousandths (0.98 = 980).                                            *)
(***************************************************************************)
EXTENDS Bags, FiniteSets, Integers, Sequences, TLC

\* ------------------------------------------------------------------ bounds
\* Number of edges of the graph a merge-only run starts from.
MaxInitEdges == 3
\* Number of service calls (API requests, background tasks) in one run.
MaxOps == 3
\* Number of verdicts in one classifier response.
MaxVerdicts == 1
MaxSessionSeeds == 1
\* Seconds the monotonic clock runs for.
MaxTime == 4
\* Number of calls made to the Rate Gate in one run.
MaxGateCalls == 7

\* ------------------------------------------------------ identifiers, types
\* Keys of the Concepts collection used by the merge-only specification.
MergeNodes == {"k1", "k2", "k3"}
\* Relation types carried by the edges of the merge-only specification.
MergeTypes == {"RELATED_TO", "HAS_PART"}

NoMerge == [source |-> "none", target |-> "none", before |-> EmptyBag]

\* Keys of the Sessions collection.
SessionIds == {"s1", "s2"}
\* Coroutines the event loop can run side by side.
Procs == {"p1", "p2"}
\* Embeddings are abstracted to classes; NoEmb is a missing embedding.
NoEmb == -1
\* Labels are abstracted to classes of near-identical spellings.
Labels == {"L1", "L2"}
\* Text bodies of seeds.
Texts == {"t0", "t1"}

VARIABLES
    Sessions,             \* Sessions collection: key -> status ("absent": no document, "none": document without status)
    Seeds,                \* Seeds collection (evidence): key -> document
    UserSeeds,            \* UserSeeds collection (draft concepts and draft relations): key -> document
    Concepts,             \* Concepts collection: key -> document
    Relationships,        \* Relationships edge collection: bag of triples
    ConceptSessionLinks,  \* ConceptSessionLinks edge collection: set of <<concept, session>>
    nextKey,              \* number of keys the store has generated
    tasks,                \* consolidate_session coroutines: position and locals
    cpu,                  \* the coroutine running between two suspension points, or "none"
    proposal,             \* per session, the preview the review UI holds
    response,             \* outcome of the last completed service call
    lastCommit,           \* arguments of the last commit_crystallization call
    ops,                  \* number of service calls made
    lastMerge,            \* history: arguments and pre-state of the last merge_concepts call
    global_limiter,       \* the TokenBucket instance: _tokens, last_refill, _lock
    now,                  \* time.monotonic(), in seconds
    granted,              \* history: number of tokens the gate has granted
    invoked               \* history: number of llm.ainvoke calls made

\* The Rate Gate with its clock and the two counters kept about it.
gate == <<global_limiter, now, granted, invoked>>

store == <<Sessions, Seeds, UserSeeds, Concepts, Relationships, ConceptSessionLinks, nextKey>>
vars == <<Sessions, Seeds, UserSeeds, Concepts, Relationships, ConceptSessionLinks, nextKey,
          tasks, cpu, proposal, response, lastCommit, ops, lastMerge, gate>>

\* --------------------------------------------------------- sequence helpers
Range(f) == {f[i] : i \in DOMAIN f}

RECURSIVE SubSeqs(_)
\* Every subsequence of q (a user un-ticking items of a proposal).
SubSeqs(q) ==
    IF q = <<>> THEN {<<>>}
    ELSE LET rest == SubSeqs(Tail(q))
         IN  rest \cup {<<Head(q)>> \o r : r \in rest}

\* Sequences over S of length at most n.
SeqsUpTo(S, n) == UNION {[1..k -> S] : k \in 0..n}

Min(a, b) == IF a < b THEN a ELSE b

\* ------------------------------------------------------------ edge helpers
Edge(f, t, ty) == [from |-> f, to |-> t, type |-> ty]

\* collection("Relationships").insert(edge): always succeeds, no uniqueness check.
InsertEdge(R, e) == R (+) SetToBag({e})

\* FOR e IN R FILTER keep(e): the bag restricted to the edges in S.
RestrictBag(R, S) == [e \in (BagToSet(R) \cap S) |-> R[e]]

NoDuplicateTriples(R) == \A e \in BagToSet(R) : CopiesIn(e, R) = 1
NoSelfLoops(R) == \A e \in BagToSet(R) : e.from # e.to

\* -------------------------------------------------------- _merge_concepts
\* The exists-check left out: every selected edge is re-created.
EquivalentEdgeMissingAlways(R, e) == TRUE

\* LET exists = FIRST(FOR te IN Relationships FILTER <same triple at the target> RETURN 1)
\* FILTER exists == null
EquivalentEdgeMissing(R, e) == CopiesIn(e, R) = 0

\* aql_move_out: every edge source -> X is re-created as target -> X unless
\* an equivalent edge exists.  The subquery reads the collection as it was
\* when the query started, so each stored copy of a selected edge is
\* re-created.
move_out(R, source_id, target_id) ==
    LET img(e) == Edge(target_id, e.to, e.type)
        sel == {e \in BagToSet(R) : e.from = source_id /\ EquivalentEdgeMissing(R, img(e))}
        new == [x \in {img(e) : e \in sel} |-> R[Edge(source_id, x.to, x.type)]]
    IN  R (+) new

\* aql_move_in: every edge X -> source is re-created as X -> target unless
\* an equivalent edge exists.
move_in(R, source_id, target_id) ==
    LET img(e) == Edge(e.from, target_id, e.type)
        sel == {e \in BagToSet(R) : e.to = source_id /\ EquivalentEdgeMissing(R, img(e))}
        new == [x \in {img(e) : e \in sel} |-> R[Edge(x.from, source_id, x.type)]]
    IN  R (+) new

\* FOR e IN Relationships FILTER e._from == @id OR e._to == @id REMOVE e
remove_edges_of(R, id) ==
    RestrictBag(R, {e \in BagToSet(R) : e.from # id /\ e.to # id})

\* The edge collection after _merge_concepts(source_id, target_id).
merge_edges(R, source_id, target_id) ==
    remove_edges_of(move_in(move_out(R, source_id, target_id), source_id, target_id), source_id)

\* collection("Concepts").delete(source_id, ignore_missing=True)
delete_concept(C, id) == [k \in (DOMAIN C \ {id}) |-> C[k]]

\* FOR e IN ConceptSessionLinks FILTER e._from == @id OR e._to == @id REMOVE e
remove_links_of(L, id) == {l \in L : l[1] # id /\ l[2] # id}

\* ----------------------------------------------------- documents, scoring
\* concept_doc of commit_crystallization (mastery 0.1 at creation).  The
\* document has no status field ("none"), as the concepts of an extraction;
\* only a source node is stored with a status ('active').
ConceptDoc(label, definition, emb, mastery, seed, session) ==
    [label |-> label, definition |-> definition, emb |-> emb, mastery |-> mastery,
     original_seed_id |-> seed, origin_session |-> session, status |-> "none"]

\* A document stored without a mastery field.
NoMastery == -1

\* _ensure_source_node: INSERT { label, type: 'source', status: 'active' } IN Concepts
SourceDoc(label) == [ConceptDoc(label, "", NoEmb, NoMastery, "none", "none") EXCEPT !.status = "active"]

InitialMastery == 10
MasteryBoost == 5
MasteryCap == 100

\* A draft concept: UserSeeds document of type 'extracted_concept'.
DraftDoc(session, label, text, emb) ==
    [type |-> "extracted_concept", session_id |-> session, label |-> label, text |-> text,
     emb |-> emb, source_id |-> "none", target_id |-> "none", relation |-> "none"]

\* A draft relation: UserSeeds document of type 'extracted_relation'.
RelDoc(session, src, tgt, relation) ==
    [type |-> "extracted_relation", session_id |-> session, label |-> "none", text |-> "none",
     emb |-> NoEmb, source_id |-> src, target_id |-> tgt, relation |-> relation]

\* Keys the store generates for inserted documents.
NewKey(n) == "n" \o ToString(n)

\* COSINE_SIMILARITY of two embeddings in thousandths; a missing embedding
\* gives null, which no FILTER score > x passes.
CosineSimilarity(e1, e2) ==
    IF e1 = NoEmb \/ e2 = NoEmb THEN 0
    ELSE LET d == IF e1 > e2 THEN e1 - e2 ELSE e2 - e1
         IN  CASE d = 0 -> 1000
               [] d = 1 -> 900
               [] d = 2 -> 800
               [] OTHER -> 500

\* fuzz.ratio(label_a, label_b) on lower-cased labels.
FuzzRatio(a, b) == IF a = b THEN 100 ELSE 50

\* rel.get('relation', 'related_to').upper().replace(' ', '_')
RelationType(relation) ==
    CASE relation = "related to" -> "RELATED_TO"
      [] relation = "has part" -> "HAS_PART"
      [] OTHER -> relation

MapGet(m, k) == IF k \in DOMAIN m THEN m[k] ELSE "none"
MapSet(m, k, v) == [x \in (DOMAIN m \cup {k}) |-> IF x = k THEN v ELSE m[x]]

\* FOR doc IN Concepts FILTER doc._id != @concept_id
\*   LET score = COSINE_SIMILARITY(doc.embedding, @embedding) FILTER score > threshold
CandidateSet(C, concept_id, emb, threshold) ==
    {k \in DOMAIN C : k # concept_id /\ CosineSimilarity(C[k].emb, emb) > threshold}

\* SORT score DESC LIMIT limit: the possible result sets (ties are cut anywhere).
TopSets(C, emb, cset, limit) ==
    IF Cardinality(cset) <= limit THEN {cset}
    ELSE {T \in SUBSET cset :
            /\ Cardinality(T) = limit
            /\ \A i \in T, o \in cset \ T :
                  CosineSimilarity(C[i].emb, emb) >= CosineSimilarity(C[o].emb, emb)}

\* RETURN { label, id, definition, score }
Candidate(C, k, emb) == [id |-> k, label |-> C[k].label, score |-> CosineSimilarity(C[k].emb, emb)]

\* The possible result lists of a candidate query: score-descending orders of a top set.
CandidateLists(C, concept_id, emb, threshold, limit) ==
    UNION { {q \in [1..Cardinality(T) -> {Candidate(C, k, emb) : k \in T}] :
                /\ \A i, j \in DOMAIN q : i < j => q[i].score >= q[j].score
                /\ \A i, j \in DOMAIN q : i # j => q[i] # q[j]}
            : T \in TopSets(C, emb, CandidateSet(C, concept_id, emb, threshold), limit) }

\* ------------------------------------------------- commit_crystallization
\* The commit works on the store through the fields of a record:
\*   C, R, key   Concepts, Relationships, generated keys
\*   map         seed_to_global_map
\*   created     created_concepts (the insert metas: ids only)
\*   failed      an exception left the handler
\*   log         the collections written, in the order of the writes

\* The label always taken from the text.
NodeLabelFromText(node) == node.text

\* label = node.get('label'), else the first words of the text
NodeLabel(node) == IF node.label = "" THEN node.text ELSE node.label

RECURSIVE process_new_nodes(_, _, _)
\* 1. Process New Nodes -> Create Concepts
process_new_nodes(st, new_nodes, session_id) ==
    IF new_nodes = <<>> THEN st
    ELSE LET node == Head(new_nodes)
             key == NewKey(st.key + 1)
             doc == ConceptDoc(NodeLabel(node), node.text, node.emb, InitialMastery, node.id, session_id)
             st1 == [st EXCEPT !.C = [k \in (DOMAIN st.C \cup {key}) |-> IF k = key THEN doc ELSE st.C[k]],
                               !.key = @ + 1,
                               !.created = Append(@, key),
                               !.map = MapSet(@, node.id, key),
                               !.R = InsertEdge(@, Edge(node.id, key, "CRYSTALLIZED_AS")),
                               !.log = @ \o <<"Concepts", "Relationships">>]
         IN  process_new_nodes(st1, Tail(new_nodes), session_id)

\* The boost added without the cap.
BumpMasteryUncapped(m) == (IF m = NoMastery THEN 0 ELSE m) + MasteryBoost

\* MIN([1.0, (doc.mastery || 0) + 0.05])
BumpMastery(m) == Min(MasteryCap, (IF m = NoMastery THEN 0 ELSE m) + MasteryBoost)

RECURSIVE handle_merges(_, _)
\* 2. Handle Merges.  The UPDATE of a target that is not a stored Concept
\* raises, which ends the handler after the edge insert.
handle_merges(st, approved_merges) ==
    IF approved_merges = <<>> \/ st.failed THEN st
    ELSE LET merge == Head(approved_merges)
             st1 == [st EXCEPT !.map = MapSet(@, merge.source_id, merge.target_id),
                               !.R = InsertEdge(@, Edge(merge.source_id, merge.target_id, "CONTRIBUTES_TO")),
                               !.log = Append(@, "Relationships")]
         IN  IF merge.target_id \notin DOMAIN st1.C
             THEN [st1 EXCEPT !.failed = TRUE]
             ELSE handle_merges([st1 EXCEPT !.C[merge.target_id].mastery = BumpMastery(@),
                                            !.log = Append(@, "Concepts")],
                                Tail(approved_merges))

\* FOR doc IN UserSeeds FILTER doc.session_id == @session_id AND doc.type == 'extracted_relation'
SessionRels(U, session_id) ==
    {k \in DOMAIN U : U[k].session_id = session_id /\ U[k].type = "extracted_relation"}

RECURSIVE migrate_edges(_, _, _)
\* 2.5 Migrate Internal Session Relationships
migrate_edges(st, U, rels) ==
    IF rels = {} \/ st.failed THEN st
    ELSE LET r == CHOOSE x \in rels : TRUE
             global_src == MapGet(st.map, U[r].source_id)
             global_tgt == MapGet(st.map, U[r].target_id)
             st1 == IF global_src # "none" /\ global_tgt # "none" /\ global_src # global_tgt
                    THEN [st EXCEPT !.R = InsertEdge(@, Edge(global_src, global_tgt, RelationType(U[r].relation))),
                                    !.log = Append(@, "Relationships")]
                    ELSE st
         IN  migrate_edges(st1, U, rels \ {r})

RECURSIVE insert_synapses(_, _)
\* 3. Form Synapses, manual mode
insert_synapses(st, approved_synapses) ==
    IF approved_synapses = <<>> \/ st.failed THEN st
    ELSE LET synapse == Head(approved_synapses)
             global_src == MapGet(st.map, synapse.source_id)
             st1 == IF global_src # "none" /\ synapse.target_id # "none"
                    THEN [st EXCEPT !.R = InsertEdge(@, Edge(global_src, synapse.target_id, synapse.relation)),
                                    !.log = Append(@, "Relationships")]
                    ELSE st
         IN  insert_synapses(st1, Tail(approved_synapses))

\* ---------------------------------------- _analyze_crystallization_batch
\* 1. PREPARE BATCHES: the concepts that carry an embedding and have a
\* candidate above 0.75, each with its candidates (LIMIT 8).
BatchCandidateThreshold == 750
BatchCandidateLimit == 8

\* The indices of new_concepts that get a batch item.
BatchIndex(C, new_concepts) ==
    {i \in DOMAIN new_concepts :
        /\ new_concepts[i].emb # NoEmb
        /\ CandidateSet(C, new_concepts[i].id, new_concepts[i].emb, BatchCandidateThreshold) # {}}

BatchTops(C, concept) ==
    TopSets(C, concept.emb,
            CandidateSet(C, concept.id, concept.emb, BatchCandidateThreshold),
            BatchCandidateLimit)

\* The batch_items a run can build from new_concepts (a sequence of
\* documents with id, label, emb): index in new_concepts -> candidate ids.
BatchItemsOf(C, new_concepts) ==
    LET idx == BatchIndex(C, new_concepts)
        alltops == UNION {BatchTops(C, new_concepts[i]) : i \in idx}
    IN  {g \in [idx -> alltops] : \A i \in idx : g[i] \in BatchTops(C, new_concepts[i])}

\* One entry of the classifier's JSON answer.
Verdict(type, source_id, target_id, relation) ==
    [type |-> type, source_id |-> source_id, target_id |-> target_id, relation |-> relation]

VerdictTypes == {"MERGE", "LINK", "CONFLICT"}

\* The entries a classifier can return for a batch: a verdict on an item of
\* the batch and one of the candidates offered with it.
VerdictsFor(new_concepts, batch) ==
    {Verdict(ty, new_concepts[i].id, t, "RELATED_TO") :
        ty \in VerdictTypes, i \in DOMAIN batch, t \in UNION {batch[j] : j \in DOMAIN batch}}

\* The answers a classifier can give: up to MaxVerdicts entries.
Connections(new_concepts, batch) == SeqsUpTo(VerdictsFor(new_concepts, batch), MaxVerdicts)

\* SelectSeq for one verdict type, mapped to the proposal entry.
RECURSIVE results_of(_, _)
\* 3. Handle Connections (Polymorphic): the entries of one type, in order.
results_of(connections, type) ==
    IF connections = <<>> THEN <<>>
    ELSE LET item == Head(connections)
             rest == results_of(Tail(connections), type)
         IN  IF item.type = type
             THEN <<[source_id |-> item.source_id, target_id |-> item.target_id,
                     relation |-> RelationType(item.relation)]>> \o rest
             ELSE rest

\* --------------------------------------------------------- service state
IdleTask ==
    [pc |-> "idle", sid |-> "none", new_concepts |-> <<>>, todo |-> <<>>,
     cur |-> "none", cands |-> <<>>, merged |-> FALSE, batch |-> <<>>, log |-> <<>>]

NoProposal == [merges |-> <<>>, conflicts |-> <<>>, synapses |-> <<>>, new_nodes |-> <<>>]
NoResponse == [op |-> "none", sid |-> "none", code |-> 0, writes |-> <<>>]
NoCommit == [sid |-> "none", approved_merges |-> <<>>, new_nodes |-> <<>>,
             synapses_given |-> FALSE, approved_synapses |-> <<>>]

\* The outcome of a call with the collections it wrote, in order.
Answer(op, sid, code, writes) == [op |-> op, sid |-> sid, code |-> code, writes |-> writes]

Response(op, sid, code) == Answer(op, sid, code, <<>>)

\* An arbitrary but fixed listing of a set (the order a query returns it in).
SeqOfSet(S) ==
    CHOOSE q \in [1..Cardinality(S) -> S] : \A i, j \in DOMAIN q : i # j => q[i] # q[j]

\* The snapshot of a document that analysis and commit work with.
Node(id, doc) == [id |-> id, label |-> doc.label, text |-> doc.text, emb |-> doc.emb]

\* FOR doc IN UserSeeds FILTER doc.session_id == @id
\*   AND doc.type IN ['concept', 'extracted_concept'] RETURN doc
SessionDrafts(U, session_id) ==
    {k \in DOMAIN U : U[k].session_id = session_id /\ U[k].type \in {"concept", "extracted_concept"}}

\* UPDATE @key WITH { status: 'crystallized', ... } IN Sessions
\* (the query fails, and writes nothing, when the session has no document).
Crystallized(S, session_id) ==
    IF S[session_id] = "absent" THEN S ELSE [S EXCEPT ![session_id] = "crystallized"]

\* A service call is admitted: the event loop is free and the run's budget lasts.
CallAdmitted == cpu = "none" /\ ops < MaxOps

RECURSIVE insert_smart_synapses(_, _)
\* _form_synapses, insert mode: one edge per synapse of the analysis.
insert_smart_synapses(R, synapses) ==
    IF synapses = <<>> THEN R
    ELSE insert_smart_synapses(
             InsertEdge(R, Edge(Head(synapses).source_id, Head(synapses).target_id, Head(synapses).relation)),
             Tail(synapses))

\* The analysis storing the synapses it found, as _form_synapses does.
analysis_edges_inserted(R, synapses) == insert_smart_synapses(R, synapses)

\* The edge collection after _analyze_crystallization_batch: the analysis
\* appends to its results and executes read queries only.
analysis_edges(R, synapses) == R

\* ------------------------------------------------ preview_crystallization
\* The database reads all come before the classifier call and nothing is
\* written, so the whole call is one step.
Preview(session_id) ==
    /\ CallAdmitted
    /\ LET keys == SeqOfSet(SessionDrafts(UserSeeds, session_id))
           nodes == [i \in DOMAIN keys |-> Node(keys[i], UserSeeds[keys[i]])]
       IN  \E batch \in BatchItemsOf(Concepts, nodes) :
           \E connections \in (IF DOMAIN batch = {} THEN {<<>>} ELSE Connections(nodes, batch)) :
              /\ proposal' = [proposal EXCEPT ![session_id] =
                                 [merges |-> results_of(connections, "MERGE"),
                                  conflicts |-> results_of(connections, "CONFLICT"),
                                  synapses |-> results_of(connections, "LINK"),
                                  new_nodes |-> nodes]]
              /\ Relationships' = analysis_edges(Relationships, results_of(connections, "LINK"))
    /\ response' = Response("preview", session_id, 200)
    /\ ops' = ops + 1
    /\ UNCHANGED <<Sessions, Seeds, UserSeeds, Concepts, ConceptSessionLinks, nextKey,
                   tasks, cpu, lastCommit, lastMerge, gate>>

\* ------------------------------------------------- commit_crystallization
\* The handler starts on the stored collections with seed_to_global_map = {}
\* and created_concepts = [].
commit_start ==
    [C |-> Concepts, R |-> Relationships, S |-> Sessions, key |-> nextKey,
     map |-> <<>>, created |-> <<>>, failed |-> FALSE, log |-> <<>>]

\* 3. Form Synapses: the approved synapses in manual mode; the legacy auto
\* mode analyses the insert metas, which carry no embedding, and writes nothing.
form_synapses_step(st, synapses_given, approved_synapses) ==
    IF synapses_given THEN insert_synapses(st, approved_synapses) ELSE st

\* UPDATE @key WITH { status: 'crystallized' } IN Sessions at the end of the
\* handler; the query raises when the session has no document.
mark_crystallized(st, session_id) ==
    IF st.failed THEN st
    ELSE IF st.S[session_id] = "absent" THEN [st EXCEPT !.failed = TRUE]
    ELSE [st EXCEPT !.S = Crystallized(@, session_id), !.log = Append(@, "Sessions")]

\* The session marked crystallized before the synapses are formed.
commit_tail_status_first(st, session_id, synapses_given, approved_synapses) ==
    form_synapses_step(mark_crystallized(st, session_id), synapses_given, approved_synapses)

\* The end of the handler: 3. Form Synapses, then the status update.
commit_tail(st, session_id, synapses_given, approved_synapses) ==
    mark_crystallized(form_synapses_step(st, synapses_given, approved_synapses), session_id)

\* The store after the handler ran on the given arguments.  Every database
\* call is synchronous and the legacy auto mode finds no embedding in the
\* insert metas, so the handler never suspends.
commit_store(session_id, approved_merges, new_nodes, synapses_given, approved_synapses) ==
    LET st1 == process_new_nodes(commit_start, new_nodes, session_id)
        st2 == handle_merges(st1, approved_merges)
        st3 == migrate_edges(st2, UserSeeds, SessionRels(UserSeeds, session_id))
    IN  commit_tail(st3, session_id, synapses_given, approved_synapses)

Commit(session_id, approved_merges, new_nodes, synapses_given, approved_synapses) ==
    /\ CallAdmitted
    /\ LET st == commit_store(session_id, approved_merges, new_nodes, synapses_given, approved_synapses)
       IN  /\ Concepts' = st.C
           /\ Relationships' = st.R
           /\ nextKey' = st.key
           /\ Sessions' = st.S
           /\ response' = Answer("commit", session_id, IF st.failed THEN 500 ELSE 200, st.log)
    /\ lastCommit' = [sid |-> session_id, approved_merges |-> approved_merges, new_nodes |-> new_nodes,
                      synapses_given |-> synapses_given, approved_synapses |-> approved_synapses]
    /\ ops' = ops + 1
    /\ UNCHANGED <<Seeds, UserSeeds, ConceptSessionLinks, tasks, cpu, proposal, lastMerge, gate>>

\* The review UI sends back the preview it holds, after the edits of the user.
CommitFromPreview(session_id) ==
    \E approved_merges \in SubSeqs(proposal[session_id].merges),
       new_nodes \in SubSeqs(proposal[session_id].new_nodes) :
          \/ Commit(session_id, approved_merges, new_nodes, FALSE, <<>>)
          \/ \E approved_synapses \in SubSeqs(proposal[session_id].synapses) :
                Commit(session_id, approved_merges, new_nodes, TRUE, approved_synapses)

\* ---------------------------------------------------- consolidate_session
JudgeThreshold == 850
JudgeLimit == 5
AutoMergeScore == 980
AutoMergeFuzzy == 90

\* The collections _merge_concepts writes, in order.
MergeWrites == <<"Relationships", "ConceptSessionLinks", "Concepts">>

\* 5. Crystalize and return: the status update raises when the session has
\* no document, else the run returns status 'success'.
ConsolidateAnswer(sid, log) ==
    IF Sessions[sid] = "absent"
    THEN Answer("consolidate", sid, 500, log)
    ELSE Answer("consolidate", sid, 200, Append(log, "Sessions"))

\* _merge_concepts applied to the store.
MergeInStore(source_id, target_id) ==
    /\ Relationships' = merge_edges(Relationships, source_id, target_id)
    /\ ConceptSessionLinks' = remove_links_of(ConceptSessionLinks, source_id)
    /\ Concepts' = delete_concept(Concepts, source_id)

\* POST /end: the consolidation is queued as a background task.
EndSession(p, session_id) ==
    /\ CallAdmitted
    /\ tasks[p].pc = "idle"
    /\ tasks' = [tasks EXCEPT ![p] = [IdleTask EXCEPT !.pc = "start", !.sid = session_id]]
    /\ response' = Response("end_session", session_id, 200)
    /\ ops' = ops + 1
    /\ UNCHANGED <<store, cpu, proposal, lastCommit, lastMerge, gate>>

\* 1. Identify Concepts created in this session (FOR link IN ConceptSessionLinks ...)
ConsolidateStart(p) ==
    /\ cpu = "none"
    /\ tasks[p].pc = "start"
    /\ LET keys == SeqOfSet({l[1] : l \in {x \in ConceptSessionLinks :
                                              x[2] = tasks[p].sid /\ x[1] \in DOMAIN Concepts}})
           docs == [i \in DOMAIN keys |->
                      [id |-> keys[i], label |-> Concepts[keys[i]].label,
                       text |-> Concepts[keys[i]].definition, emb |-> Concepts[keys[i]].emb]]
       IN  tasks' = [tasks EXCEPT ![p].pc = "next_concept", ![p].new_concepts = docs, ![p].todo = docs]
    /\ cpu' = p
    /\ UNCHANGED <<store, proposal, response, lastCommit, ops, lastMerge, gate>>

\* for concept in new_concepts: skip without embedding, else 2. Vector Search for Candidates
NextConcept(p) ==
    /\ cpu = p
    /\ tasks[p].pc = "next_concept"
    /\ IF tasks[p].todo = <<>>
       THEN tasks' = [tasks EXCEPT ![p].pc = "synapses"]
       ELSE LET concept == Head(tasks[p].todo)
            IN  IF concept.emb = NoEmb
                THEN tasks' = [tasks EXCEPT ![p].todo = Tail(@)]
                ELSE \E cands \in CandidateLists(Concepts, concept.id, concept.emb, JudgeThreshold, JudgeLimit) :
                        tasks' = [tasks EXCEPT ![p].todo = Tail(@), ![p].cur = concept.id,
                                               ![p].cands = cands, ![p].merged = FALSE, ![p].pc = "judge"]
    /\ UNCHANGED <<store, cpu, proposal, response, lastCommit, ops, lastMerge, gate>>

\* The label of the concept the task is resolving (from its snapshot).
CurLabel(t) == (CHOOSE c \in Range(t.new_concepts) : c.id = t.cur).label

\* 3. Hybrid Judge Logic for the next candidate: auto-merge on a vector score
\* above 0.98 or a fuzzy ratio above 90, else the LLM judge is awaited.
Judge(p) ==
    /\ cpu = p
    /\ tasks[p].pc = "judge"
    /\ IF tasks[p].merged \/ tasks[p].cands = <<>>
       THEN /\ tasks' = [tasks EXCEPT ![p].pc = "next_concept"]
            /\ UNCHANGED <<store, cpu>>
       ELSE LET cand == Head(tasks[p].cands)
            IN  IF cand.score > AutoMergeScore \/ FuzzRatio(CurLabel(tasks[p]), cand.label) > AutoMergeFuzzy
                THEN /\ MergeInStore(tasks[p].cur, cand.id)
                     /\ tasks' = [tasks EXCEPT ![p].merged = TRUE, ![p].cands = Tail(@),
                                                ![p].log = @ \o MergeWrites]
                     /\ UNCHANGED <<Sessions, Seeds, UserSeeds, nextKey, cpu>>
                ELSE IF cand.score > JudgeThreshold
                THEN /\ tasks' = [tasks EXCEPT ![p].pc = "await_judge"]
                     /\ cpu' = "none"
                     /\ UNCHANGED store
                ELSE /\ tasks' = [tasks EXCEPT ![p].cands = Tail(@)]
                     /\ UNCHANGED <<store, cpu>>
    /\ UNCHANGED <<proposal, response, lastCommit, ops, lastMerge, gate>>

\* _llm_merge_judge returns (is_same or False on any error); a match merges.
JudgeReturn(p, is_match) ==
    /\ cpu = "none"
    /\ tasks[p].pc = "await_judge"
    /\ IF is_match
       THEN /\ MergeInStore(tasks[p].cur, Head(tasks[p].cands).id)
            /\ UNCHANGED <<Sessions, Seeds, UserSeeds, nextKey>>
       ELSE UNCHANGED store
    /\ tasks' = [tasks EXCEPT ![p].pc = "judge", ![p].merged = is_match, ![p].cands = Tail(@),
                               ![p].log = IF is_match THEN @ \o MergeWrites ELSE @]
    /\ cpu' = p
    /\ UNCHANGED <<proposal, response, lastCommit, ops, lastMerge, gate>>

\* 4. Form Synapses: the analysis of new_concepts (the list read at the
\* start of the run); without batch items no classifier is called and the
\* run goes on to 5. Crystalize.
FormSynapses(p) ==
    /\ cpu = p
    /\ tasks[p].pc = "synapses"
    /\ \E batch \in BatchItemsOf(Concepts, tasks[p].new_concepts) :
          IF DOMAIN batch = {}
          THEN /\ Sessions' = Crystallized(Sessions, tasks[p].sid)
               /\ response' = ConsolidateAnswer(tasks[p].sid, tasks[p].log)
               /\ tasks' = [tasks EXCEPT ![p] = IdleTask]
               /\ UNCHANGED <<Seeds, UserSeeds, Concepts, Relationships, ConceptSessionLinks, nextKey>>
          ELSE /\ tasks' = [tasks EXCEPT ![p].pc = "await_batch", ![p].batch = batch]
               /\ UNCHANGED <<store, response>>
    /\ cpu' = "none"
    /\ UNCHANGED <<proposal, lastCommit, ops, lastMerge, gate>>

\* The classifier answers (an error counts as an empty answer): the LINK
\* verdicts are inserted, then 5. Crystalize.
BatchReturn(p, connections) ==
    /\ cpu = "none"
    /\ tasks[p].pc = "await_batch"
    /\ Relationships' = insert_smart_synapses(Relationships, results_of(connections, "LINK"))
    /\ Sessions' = Crystallized(Sessions, tasks[p].sid)
    /\ response' = ConsolidateAnswer(tasks[p].sid,
                        tasks[p].log \o [i \in DOMAIN results_of(connections, "LINK") |-> "Relationships"])
    /\ tasks' = [tasks EXCEPT ![p] = IdleTask]
    /\ UNCHANGED <<Seeds, UserSeeds, Concepts, ConceptSessionLinks, nextKey,
                   cpu, proposal, lastCommit, ops, lastMerge, gate>>

Consolidate(p) ==
    \/ ConsolidateStart(p)
    \/ NextConcept(p)
    \/ Judge(p)
    \/ \E is_match \in BOOLEAN : JudgeReturn(p, is_match)
    \/ FormSynapses(p)
    \/ \E connections \in Connections(tasks[p].new_concepts, tasks[p].batch) : BatchReturn(p, connections)

\* ----------------------------------------------- _store_extraction_results
\* The extraction results a run stores: one concept (key and label derived
\* from its name) with its relations.
ExtractionData ==
    {[key |-> "k1", label |-> "L1", relations |-> <<>>],
     [key |-> "k1", label |-> "L1", relations |-> <<[target |-> "k2", type |-> "RELATED_TO"]>>]}

\* collection("Concepts").insert(doc, overwrite_mode='update'): the fields of
\* doc replace those of a stored document, the others (embedding, mastery) stay.
upsert_concept(C, key, label) ==
    IF key \in DOMAIN C
    THEN [C EXCEPT ![key].label = label, ![key].definition = ""]
    ELSE [k \in (DOMAIN C \cup {key}) |->
            IF k = key THEN ConceptDoc(label, "", NoEmb, NoMastery, "none", "none") ELSE C[k]]

\* Insert Stub for a relation target: kept as is when the key exists.
insert_stub(C, key) ==
    IF key \in DOMAIN C THEN C
    ELSE [k \in (DOMAIN C \cup {key}) |->
            IF k = key THEN ConceptDoc(key, "", NoEmb, NoMastery, "none", "none") ELSE C[k]]

RECURSIVE store_relations(_, _, _)
\* Process Relations: stub and edge per relation of the concept.
store_relations(st, key, relations) ==
    IF relations = <<>> THEN st
    ELSE LET rel == Head(relations)
         IN  store_relations([C |-> insert_stub(st.C, rel.target),
                              R |-> InsertEdge(st.R, Edge(key, rel.target, rel.type))],
                             key, Tail(relations))

\* The session document is replaced by {_key, type} (insert with
\* overwrite=True), the concept is upserted and linked to its source and to
\* the session.  The function has no suspension point.
StoreExtractionResults(data, source_id, session_id) ==
    /\ CallAdmitted
    /\ Sessions' = [Sessions EXCEPT ![session_id] = "none"]
    /\ LET st == store_relations(
                    [C |-> upsert_concept(Concepts, data.key, data.label),
                     R |-> InsertEdge(Relationships, Edge(source_id, data.key, "MENTIONS"))],
                    data.key, data.relations)
       IN  /\ Concepts' = st.C
           /\ Relationships' = st.R
    /\ ConceptSessionLinks' = ConceptSessionLinks \cup {<<data.key, session_id>>}
    /\ response' = Response("store_extraction", session_id, 200)
    /\ ops' = ops + 1
    /\ UNCHANGED <<Seeds, UserSeeds, nextKey, tasks, cpu, proposal, lastCommit, lastMerge, gate>>

\* -------------------------------------------------------- graph editing
\* The draft documents a client knows and names in its edit requests.
DraftIds == {"d1", "d2", "r1"}

\* The edits a client sends to update_seed.
SeedUpdates == {[field |-> "label", value |-> "L2"], [field |-> "text", value |-> "t1"]}

DeleteConfirmEdges == 5

\* Every edit handler: a ValueError is answered with 400 and writes nothing.
Rejected(op, session_id) ==
    /\ response' = Response(op, session_id, 400)
    /\ ops' = ops + 1
    /\ UNCHANGED <<store, tasks, cpu, proposal, lastCommit, lastMerge, gate>>

Accepted(op, session_id) ==
    /\ response' = Response(op, session_id, 200)
    /\ ops' = ops + 1
    /\ UNCHANGED <<tasks, cpu, proposal, lastCommit, lastMerge, gate>>

set_field(doc, field, value) ==
    IF field = "label" THEN [doc EXCEPT !.label = value]
    ELSE IF field = "text" THEN [doc EXCEPT !.text = value]
    ELSE IF field = "relation" THEN [doc EXCEPT !.relation = value]
    ELSE doc

\* update_seed on a UserSeed (seed ids that start with "Concepts/" go to the
\* Concepts collection, which the session drafts never do).
UpdateSeed(session_id, seed_id, updates) ==
    /\ CallAdmitted
    /\ IF seed_id \notin DOMAIN UserSeeds \/ UserSeeds[seed_id].session_id # session_id
       THEN Rejected("update_seed", session_id)
       ELSE /\ UserSeeds' = [UserSeeds EXCEPT ![seed_id] = set_field(@, updates.field, updates.value)]
            /\ Accepted("update_seed", session_id)
            /\ UNCHANGED <<Sessions, Seeds, Concepts, Relationships, ConceptSessionLinks, nextKey>>

\* The draft relations that touch a seed.
EdgesOfSeed(U, id) ==
    {k \in DOMAIN U : (U[k].source_id = id \/ U[k].target_id = id) /\ U[k].type = "extracted_relation"}

DeleteSeed(session_id, seed_id, force) ==
    /\ CallAdmitted
    /\ IF \/ seed_id \notin DOMAIN UserSeeds
          \/ UserSeeds[seed_id].session_id # session_id
          \/ (Cardinality(EdgesOfSeed(UserSeeds, seed_id)) > DeleteConfirmEdges /\ ~force)
       THEN Rejected("delete_seed", session_id)
       ELSE /\ UserSeeds' = [k \in (DOMAIN UserSeeds \ (EdgesOfSeed(UserSeeds, seed_id) \cup {seed_id})) |-> UserSeeds[k]]
            /\ Accepted("delete_seed", session_id)
            /\ UNCHANGED <<Sessions, Seeds, Concepts, Relationships, ConceptSessionLinks, nextKey>>

UpdateEdge(session_id, edge_id, relation) ==
    /\ CallAdmitted
    /\ IF \/ edge_id \notin DOMAIN UserSeeds
          \/ UserSeeds[edge_id].session_id # session_id
          \/ UserSeeds[edge_id].type # "extracted_relation"
       THEN Rejected("update_edge", session_id)
       ELSE /\ UserSeeds' = [UserSeeds EXCEPT ![edge_id] = set_field(@, "relation", relation)]
            /\ Accepted("update_edge", session_id)
            /\ UNCHANGED <<Sessions, Seeds, Concepts, Relationships, ConceptSessionLinks, nextKey>>

DeleteEdge(session_id, edge_id) ==
    /\ CallAdmitted
    /\ IF edge_id \notin DOMAIN UserSeeds \/ UserSeeds[edge_id].session_id # session_id
       THEN Rejected("delete_edge", session_id)
       ELSE /\ UserSeeds' = [k \in (DOMAIN UserSeeds \ {edge_id}) |-> UserSeeds[k]]
            /\ Accepted("delete_edge", session_id)
            /\ UNCHANGED <<Sessions, Seeds, Concepts, Relationships, ConceptSessionLinks, nextKey>>

CreateEdge(session_id, source_id, target_id, relation) ==
    /\ CallAdmitted
    /\ IF source_id \notin DOMAIN UserSeeds \/ target_id \notin DOMAIN UserSeeds
       THEN Rejected("create_edge", session_id)
       ELSE /\ UserSeeds' = [k \in (DOMAIN UserSeeds \cup {NewKey(nextKey + 1)}) |->
                               IF k = NewKey(nextKey + 1)
                               THEN RelDoc(session_id, source_id, target_id, relation)
                               ELSE UserSeeds[k]]
            /\ nextKey' = nextKey + 1
            /\ Accepted("create_edge", session_id)
            /\ UNCHANGED <<Sessions, Seeds, Concepts, Relationships, ConceptSessionLinks>>

\* ------------------------------------------------- update_session_content
\* item_id.split('/') must give exactly two parts.
ValidIdFormat(item_id) == Len(item_id) = 2

EditableCollections == {"Seeds", "UserSeeds"}

\* The status check that lets every session through.
ContentEditNeverBlocked(status) == FALSE

\* 1. Check Session Status
ContentEditBlocked(status) == status = "crystallized"

\* item_id is the id split at '/'.  The endpoint answers a ValueError with
\* 400 and any other failure (an UPDATE of a missing key) with 500.
UpdateSessionContent(session_id, item_id, new_content) ==
    /\ CallAdmitted
    /\ IF \/ ContentEditBlocked(Sessions[session_id])
          \/ ~ValidIdFormat(item_id)
          \/ item_id[1] \notin EditableCollections
       THEN Rejected("update_session_content", session_id)
       ELSE /\ IF item_id[1] = "UserSeeds" /\ item_id[2] \in DOMAIN UserSeeds
               THEN /\ UserSeeds' = [UserSeeds EXCEPT ![item_id[2]].text = new_content]
                    /\ Seeds' = Seeds
                    /\ response' = Response("update_session_content", session_id, 200)
               ELSE IF item_id[1] = "Seeds" /\ item_id[2] \in DOMAIN Seeds
               THEN /\ Seeds' = [Seeds EXCEPT ![item_id[2]].highlight = new_content]
                    /\ UserSeeds' = UserSeeds
                    /\ response' = Response("update_session_content", session_id, 200)
               ELSE /\ UNCHANGED <<Seeds, UserSeeds>>
                    /\ response' = Response("update_session_content", session_id, 500)
            /\ ops' = ops + 1
            /\ UNCHANGED <<Sessions, Concepts, Relationships, ConceptSessionLinks, nextKey,
                           tasks, cpu, proposal, lastCommit, lastMerge, gate>>

\* The item ids a client sends.
ItemIds ==
    {<<"UserSeeds", "d1">>, <<"Seeds", "e1">>, <<"Concepts", "k1">>, <<"d1">>, <<"UserSeeds", "d1", "x">>}

\* ------------------------------------------------- review: assess_concept
\* The keys of SM2_INTERVALS: the difficulties a request may carry.
Difficulties == {"hard", "good", "easy", "mastered"}

\* SM2_MASTERY_BOOST in hundredths.
SM2MasteryBoost(difficulty) ==
    CASE difficulty = "hard" -> 0
      [] difficulty = "good" -> 5
      [] difficulty = "easy" -> 10
      [] difficulty = "mastered" -> 85

\* For mastered, ensure at least 0.95
MasteredFloor == 95

\* concept.get("mastery", 0.1)
DefaultMastery == 10

\* new_mastery = min(1.0, current_mastery + mastery_boost), raised to the
\* floor when the request says mastered.
NewMastery(current, difficulty, mastered) ==
    LET capped == Min(MasteryCap, (IF current = NoMastery THEN DefaultMastery ELSE current)
                                  + SM2MasteryBoost(difficulty))
    IN  IF mastered /\ capped < MasteredFloor THEN MasteredFloor ELSE capped

\* The requests a client sends to POST /assess/{concept_id}.
AssessIds == {"k1", "src", "zz"}
AssessDifficulties == Difficulties \cup {"unknown"}

\* assess_concept: 400 on an unknown difficulty, 404 on a missing concept,
\* else the mastery update.  The handler has no suspension point.
AssessConcept(concept_id, request_difficulty, mastered) ==
    /\ CallAdmitted
    /\ IF request_difficulty \notin Difficulties
       THEN /\ response' = Response("assess", "none", 400)
            /\ Concepts' = Concepts
       ELSE IF concept_id \notin DOMAIN Concepts
       THEN /\ response' = Response("assess", "none", 404)
            /\ Concepts' = Concepts
       ELSE /\ Concepts' = [Concepts EXCEPT ![concept_id].mastery =
                               NewMastery(@, IF mastered THEN "mastered" ELSE request_difficulty, mastered)]
            /\ response' = Response("assess", "none", 200)
    /\ ops' = ops + 1
    /\ UNCHANGED <<Sessions, Seeds, UserSeeds, Relationships, ConceptSessionLinks, nextKey,
                   tasks, cpu, proposal, lastCommit, lastMerge, gate>>

\* ------------------------------------------------------- hybrid_retrieve
\* Scores are in thousandths, priorities in tenths.
PriorityWeights(source) ==
    CASE source = "session_seeds" -> 10
      [] source = "concept_vector" -> 9
      [] source = "graph_expansion" -> 7
      [] source = "global_seeds" -> 5

SPARSE_THRESHOLD == 2
RERANK_FINAL_K == 10
STRONG_MATCH_THRESHOLD == 750
WEAK_MATCH_THRESHOLD == 500
SessionConceptThreshold == 550
SessionGlobalThreshold == 600
GlobalOnlyThreshold == 500
ConceptSearchLimit == 5

\* A retrieved item; item.get('priority', 0.5) until a priority is assigned.
Item(id, score, source) == [id |-> id, score |-> score, source |-> source, priority |-> 5]

\* for item in results: item['priority'] = weight
WithPriority(q, weight) == [i \in DOMAIN q |-> [q[i] EXCEPT !.priority = weight]]

Take(q, n) == SubSeq(q, 1, Min(n, Len(q)))

Max(S) == CHOOSE x \in S : \A y \in S : x >= y

\* SORT score DESC LIMIT limit over a set of items: the possible result lists.
DescLists(S, limit) ==
    {Take(q, limit) : q \in {r \in [1..Cardinality(S) -> S] :
                                /\ \A i, j \in DOMAIN r : i # j => r[i] # r[j]
                                /\ \A i, j \in DOMAIN r : i < j => r[i].score >= r[j].score}}

\* search_concepts.  scored is the set of Concepts with an embedding and a type
\* other than 'source', each with its cosine similarity to the query and
\* whether a ConceptSessionLinks edge ties it to the session.
\* With a session: session concepts above 0.55 and global concepts above 0.6
\* are united, one item is kept per concept (FIRST of its group), and the
\* items are sorted by score; without a session: global concepts above 0.5.
search_concepts(scored, with_session, limit) ==
    IF with_session
    THEN LET session_items == {Item(c.id, c.score, "session_concept") :
                                  c \in {x \in scored : x.linked /\ x.score > SessionConceptThreshold}}
             global_items == {Item(c.id, c.score, "global_concept") :
                                  c \in {x \in scored : x.score > SessionGlobalThreshold}}
         IN  UNION { UNION { UNION { DescLists(Range(best), limit)
                                     : best \in {b \in [{x.id : x \in Range(sc) \cup Range(gc)} -> Range(sc) \cup Range(gc)] :
                                                    \A k \in DOMAIN b : b[k].id = k} }
                             : gc \in DescLists(global_items, limit) }
                     : sc \in DescLists(session_items, limit) }
    ELSE DescLists({Item(c.id, c.score, "global_concept") :
                       c \in {x \in scored : x.score > GlobalOnlyThreshold}}, limit)

\* Territory detection from the maximum score of the primary concepts.
max_primary_score(concept_results) ==
    LET primary_concept_scores ==
            {concept_results[i].score : i \in {j \in DOMAIN concept_results :
                concept_results[j].source \in {"session_concept", "global_concept"}}}
    IN  IF primary_concept_scores # {} THEN Max(primary_concept_scores) ELSE 0

\* The strong threshold taken as a strict bound.
TerritoryStrict(m) ==
    IF m > STRONG_MATCH_THRESHOLD THEN "known"
    ELSE IF m >= WEAK_MATCH_THRESHOLD THEN "uncertain"
    ELSE "new"

Territory(m) ==
    IF m >= STRONG_MATCH_THRESHOLD THEN "known"
    ELSE IF m >= WEAK_MATCH_THRESHOLD THEN "uncertain"
    ELSE "new"

\* sort_key: base_score * priority
sort_key(item) == item.score * item.priority

\* The item left where the searches put it.
InsertLast(sorted, x) == Append(sorted, x)

\* The place list.sort(key=sort_key, reverse=True) gives x among the sorted
\* items before it: after every item whose key is at least its own.
InsertByKey(sorted, x) ==
    LET n == Cardinality({i \in DOMAIN sorted : sort_key(sorted[i]) >= sort_key(x)})
    IN  SubSeq(sorted, 1, n) \o <<x>> \o SubSeq(sorted, n + 1, Len(sorted))

RECURSIVE sort_results(_)
\* all_results.sort(key=sort_key, reverse=True), a stable sort.
sort_results(q) ==
    IF q = <<>> THEN <<>>
    ELSE InsertByKey(sort_results(SubSeq(q, 1, Len(q) - 1)), q[Len(q)])

\* The scores reranker.predict can give the documents of a list: each is
\* found relevant to the query (1) or not (0).
RerankScores(results) == [{results[i].id : i \in DOMAIN results} -> {0, 1}]

RECURSIVE sort_by_rerank_score(_, _)
\* sorted(results, key=lambda x: x.get('rerank_score', 0), reverse=True), a
\* stable sort: each item goes after the items scored at least as high.
sort_by_rerank_score(q, scores) ==
    IF q = <<>> THEN <<>>
    ELSE LET sorted == sort_by_rerank_score(SubSeq(q, 1, Len(q) - 1), scores)
             x == q[Len(q)]
             n == Cardinality({i \in DOMAIN sorted : scores[sorted[i].id] >= scores[x.id]})
         IN  SubSeq(sorted, 1, n) \o <<x>> \o SubSeq(sorted, n + 1, Len(sorted))

\* A reranker whose failure is not caught: the items come back reordered.
rerank_despite_failure(results, top_k, failed, scores) ==
    Take(sort_by_rerank_score(results, scores), top_k)

\* rerank_results: results[:top_k] when the list is empty and when the
\* model is disabled, not loaded or raises, else the items sorted by the
\* cross-encoder's scores, cut to top_k.
rerank_results(results, top_k, failed, scores) ==
    IF results = <<>> \/ failed THEN Take(results, top_k)
    ELSE Take(sort_by_rerank_score(results, scores), top_k)

\* search_global_seeds.  seed_scored is the set of Seeds with an embedding,
\* each with its cosine similarity to the query and its session; the seeds
\* of exclude_session are left out ("none": no session is excluded), the
\* others above 0.6 are returned with half their score.
GlobalSeedThreshold == 600
GlobalSeedLimit == 5
search_global_seeds(seed_scored, exclude_session, limit) ==
    DescLists({Item(c.id, c.score \div 2, "global_seeds") :
                  c \in {x \in seed_scored : /\ exclude_session = "none" \/ x.session_id # exclude_session
                                            /\ x.score > GlobalSeedThreshold}}, limit)

RECURSIVE SumScores(_)
SumScores(q) == IF q = <<>> THEN 0 ELSE Head(q).score + SumScores(Tail(q))

\* Zero for an empty list with the count, average and diversity terms left out.
context_quality_flat(results) == 0

\* calculate_context_quality, in thousandths (the average is rounded down):
\* 0.3 * min(n / 5, 1) + 0.5 * average score + min(sources / 3, 0.3), at most 1.
calculate_context_quality(results) ==
    IF results = <<>> THEN 0
    ELSE LET count_score == (300 * Min(Len(results), 5)) \div 5
             avg_score == SumScores(results) \div Len(results)
             sources == {results[i].source : i \in DOMAIN results}
             diversity_bonus == Min((1000 * Cardinality(sources)) \div 3, 300)
         IN  Min(count_score + (avg_score \div 2) + diversity_bonus, 1000)

GAP_SCORE_THRESHOLD == 850

\* label in seed_text.lower(): which texts mention which labels.
LabelInText(label, text) == label = "L1" /\ text = "t1"

\* detect_missed_concepts: the seeds found with a score of at least 0.85 and
\* a text that mentions the label of no concept found, at most three.
detect_missed_concepts(seeds_found, concepts_found) ==
    LET concept_labels == {Concepts[concepts_found[i].id].label :
                              i \in {j \in DOMAIN concepts_found : concepts_found[j].id \in DOMAIN Concepts}}
        missed(seed) == /\ seed.score >= GAP_SCORE_THRESHOLD
                        /\ seed.id \in DOMAIN Seeds
                        /\ \A label \in concept_labels : ~LabelInText(label, Seeds[seed.id].highlight)
    IN  Take(SelectSeq(seeds_found, missed), 3)

\* The candidates the searches of one query can return.
SeedIds == <<"e1", "e2", "e3">>
SeedScores == {300, 900}
SessionSeedResults ==
    {[i \in DOMAIN sc |-> Item(SeedIds[i], sc[i], "session_seeds")] : sc \in SeqsUpTo(SeedScores, MaxSessionSeeds)}
ConceptScores == {500, 520, 580, 620, 740, 750}
ScoredConcepts ==
    {a \cup b : a \in {{}} \cup {{[id |-> "k1", score |-> sc, linked |-> TRUE]} : sc \in ConceptScores},
                b \in {{}} \cup {{[id |-> "k2", score |-> sc, linked |-> FALSE]} : sc \in ConceptScores}}
ScoredSeeds ==
    {a \cup b : a \in {{}} \cup {{[id |-> "g1", score |-> sc, session_id |-> "s2"]} : sc \in {580, 700}},
                b \in {{}, {[id |-> "e1", score |-> 700, session_id |-> "s1"]}}}

\* The steps of hybrid_retrieve that can fail (embedding model, Graph Store
\* query, cross-encoder); at most one fails in a call.
RetrieveSteps == {"embed", "session_seeds", "concepts", "expansion", "global_seeds", "rerank"}
FailureCases == {{}} \cup {{f} : f \in RetrieveSteps}

\* The candidates fit the store: concepts with an embedding, linked to the
\* session as the store says, and seeds of the sessions they are stored for.
CandidatesInStore(scored, session_hits, seed_scored) ==
    /\ \A c \in scored : /\ c.id \in DOMAIN Concepts
                         /\ Concepts[c.id].emb # NoEmb
                         /\ c.linked <=> <<c.id, "s1">> \in ConceptSessionLinks
    /\ \A i \in DOMAIN session_hits : /\ session_hits[i].id \in DOMAIN Seeds
                                      /\ Seeds[session_hits[i].id].session_id = "s1"
    /\ \A c \in seed_scored : c.id \in DOMAIN Seeds /\ Seeds[c.id].session_id = c.session_id

\* expanded = await self.expand_graph(concept_ids, hops=2, limit=5)
ExpansionLimit == 5

\* expand_graph: the edge type weights, in tenths.
edge_weight(type) ==
    CASE type \in {"CAUSES", "REQUIRES", "ENABLES", "HAS_PART", "PREREQUISITE"} -> 10
      [] type \in {"RELATED_TO", "MENTIONS"} -> 6
      [] type = "CONTRADICTS" -> 8
      [] OTHER -> 5

\* The scores (final_weight * 0.7, in thousandths) of the paths of one or
\* two edges, followed in ANY direction and using no edge twice, that lead
\* from start_id to v: the weight of the last edge, halved on the second hop.
expansion_scores(R, start_id, v) ==
    LET incident(x) == {e \in BagToSet(R) : e.from = x \/ e.to = x}
        other_end(e, x) == IF e.from = x THEN e.to ELSE e.from
    IN  {edge_weight(e.type) * 70 : e \in {d \in incident(start_id) : other_end(d, start_id) = v}}
        \cup UNION {{edge_weight(e2.type) * 35 :
                        e2 \in {d \in incident(other_end(e1, start_id)) :
                                   /\ d # e1 \/ CopiesIn(e1, R) > 1
                                   /\ other_end(d, other_end(e1, start_id)) = v}} :
                    e1 \in incident(start_id)}

\* expand_graph(concept_ids, hops=2, limit): the nodes of type concept or
\* source (a Seed has another type) reached from the given concepts, one
\* item per node (COLLECT node_id) with its best score, SORT max_weight
\* DESC LIMIT limit.  The given concepts are not left out.
expand_graph(C, R, concept_ids, limit) ==
    LET scores(v) == UNION {expansion_scores(R, s, v) : s \in concept_ids \cap DOMAIN C}
        best(S) == CHOOSE x \in S : \A y \in S : y <= x
    IN  DescLists({Item(v, best(scores(v)), "graph_expansion") :
                      v \in {x \in DOMAIN C : scores(x) # {}}}, limit)

\* An exception leaves hybrid_retrieve: no answer is returned.
RetrieveRaised(sid, failing) ==
    [op |-> "hybrid_retrieve", sid |-> sid, code |-> 500, writes |-> <<>>, failed |-> failing]

\* A candidate search that hands on what the query produced, error or not.
results_despite_error(step, failing, found) == found

\* try: cursor = self.db.aql.execute(...); return list(cursor)
\* except Exception: return []   (search_concepts, expand_graph,
\* search_global_seeds): the results a search can return when step is its name.
empty_on_error(step, failing, found) == IF step \in failing THEN {<<>>} ELSE found

\* The sparsity test of step 3 taken one candidate too late.
fallback_needed_late(total_so_far) == total_so_far <= SPARSE_THRESHOLD

\* if total_so_far < self.SPARSE_THRESHOLD
fallback_needed(total_so_far) == total_so_far < SPARSE_THRESHOLD

\* hybrid_retrieve(query, session_id): the query is embedded, the searches
\* run in turn, quality, gaps and territory are computed, the results are
\* sorted and, above three results, reranked.  embed_query and hybrid_search
\* are called outside any try block; the three candidate searches and the
\* reranker answer a failure with no result.  Nothing is written to the store.
HybridRetrieve(with_session, scored, session_hits, seed_scored, failing) ==
    /\ CallAdmitted
    /\ CandidatesInStore(scored, session_hits, seed_scored)
    /\ LET sid == IF with_session THEN "s1" ELSE "none"
       IN  IF "embed" \in failing \/ (with_session /\ "session_seeds" \in failing)
           THEN response' = RetrieveRaised(sid, failing)
           ELSE \E concept_found \in empty_on_error("concepts", failing,
                                                     search_concepts(scored, with_session, ConceptSearchLimit)),
                   global_found \in empty_on_error("global_seeds", failing,
                                                    search_global_seeds(seed_scored, sid, GlobalSeedLimit)) :
                  \E expansion_found \in
                        empty_on_error("expansion", failing,
                                       expand_graph(Concepts, Relationships,
                                                    {concept_found[i].id : i \in DOMAIN concept_found},
                                                    ExpansionLimit)) :
                  LET session_seeds == IF with_session
                                       THEN WithPriority(session_hits, PriorityWeights("session_seeds"))
                                       ELSE <<>>
                      concept_results == WithPriority(concept_found, PriorityWeights("concept_vector"))
                      expanded == IF concept_results # <<>>
                                  THEN WithPriority(expansion_found, PriorityWeights("graph_expansion"))
                                  ELSE <<>>
                      so_far == session_seeds \o concept_results \o expanded
                      fallback == fallback_needed(Len(so_far))
                      global_seeds == IF fallback
                                      THEN WithPriority(global_found, PriorityWeights("global_seeds"))
                                      ELSE <<>>
                      all_results == so_far \o global_seeds
                      seeds_found == session_seeds \o global_seeds
                      concepts_found == concept_results \o expanded
                      sorted == sort_results(all_results)
                      reranking == Len(sorted) > 3
                      m == max_primary_score(concept_results)
                  IN  \E scores \in RerankScores(sorted) :
                         LET reranked(q, top_k) == rerank_results(q, top_k, "rerank" \in failing, scores)
                             results == IF reranking THEN reranked(sorted, RERANK_FINAL_K) ELSE sorted
                             concepts == IF reranking THEN reranked(concepts_found, 5) ELSE concepts_found
                         IN response' = [op |-> "hybrid_retrieve",
                                         sid |-> sid,
                                         code |-> 200,
                                         writes |-> <<>>,
                                         results |-> Take(results, 10),
                                         concepts |-> concepts,
                                         seeds |-> seeds_found,
                                         context_quality |-> calculate_context_quality(all_results),
                                         is_new_territory |-> (Territory(m) = "new"),
                                         territory |-> Territory(m),
                                         missed_concepts |-> detect_missed_concepts(seeds_found, concepts_found),
                                         concept_results |-> concept_results,
                                         total_so_far |-> Len(so_far),
                                         fallback |-> fallback,
                                         global_seeds |-> global_seeds,
                                         seed_scored |-> seed_scored,
                                         failed |-> failing,
                                         sorted |-> sorted,
                                         concepts_found |-> concepts_found]
    /\ ops' = ops + 1
    /\ UNCHANGED <<store, tasks, cpu, proposal, lastCommit, lastMerge, gate>>

\* ------------------------------------------------------------ rate limiter
\* backend/app/core/rate_limiter.py.  The bucket is counted in halves of a
\* token and time in seconds, so that refill_rate = 0.5 tokens per second
\* is one unit per second.
Token == 2

\* global_limiter = TokenBucket(capacity=5, refill_rate=0.5)
capacity == 5 * Token
refill_rate == 1

\* TokenBucket.__init__ at time t: a full bucket, the lock free.
TokenBucket(t) == [_tokens |-> capacity, last_refill |-> t, _lock |-> "none"]

\* The limiter as the module creates it, nothing granted or invoked yet.
InitGate ==
    /\ global_limiter = TokenBucket(0)
    /\ now = 0
    /\ granted = 0
    /\ invoked = 0

\* A refill that forgets the capacity.
refill_uncapped(bucket, t) ==
    [bucket EXCEPT !._tokens = @ + (t - bucket.last_refill) * refill_rate, !.last_refill = t]

\* elapsed = now - self.last_refill
\* self._tokens = min(self.capacity, self._tokens + elapsed * self.refill_rate)
\* self.last_refill = now
refill(bucket, t) ==
    [bucket EXCEPT !._tokens = Min(capacity, @ + (t - bucket.last_refill) * refill_rate),
                   !.last_refill = t]

\* The bucket after the refill of the current pass.
refilled == refill(global_limiter, now)

\* if self._tokens >= tokens
token_available(tokens) == refilled._tokens >= tokens * Token

\* self._tokens -= tokens
take_token(tokens) == [refilled EXCEPT !._tokens = @ - tokens * Token]

\* missing = 1.0 - self._tokens; wait_seconds = missing / self.refill_rate
wait_seconds == (Token - refilled._tokens) \div refill_rate

\* A coroutine outside the gate and its callers.
GateIdle == [pc |-> "idle", ret |-> "idle", wake |-> 0, tokens |-> 0]

\* wait_for_token with the sleep moved into the "async with" block: the
\* coroutine keeps the lock while it sleeps.
WaitForTokenSleepingInLock(p) ==
    /\ tasks[p].pc = "wait_for_token"
    /\ \/ cpu = p
       \/ cpu = "none" /\ tasks[p].wake > 0 /\ now >= tasks[p].wake
    /\ global_limiter._lock \in {"none", p}
    /\ IF token_available(1)
       THEN /\ global_limiter' = [take_token(1) EXCEPT !._lock = "none"]
            /\ granted' = granted + 1
            /\ tasks' = [tasks EXCEPT ![p].pc = tasks[p].ret, ![p].wake = 0]
            /\ cpu' = p
       ELSE /\ global_limiter' = [refilled EXCEPT !._lock = p]
            /\ tasks' = [tasks EXCEPT ![p].wake = now + wait_seconds]
            /\ cpu' = "none"
            /\ UNCHANGED granted
    /\ UNCHANGED <<store, proposal, response, lastCommit, ops, lastMerge, now, invoked>>

\* One pass of wait_for_token's loop by coroutine p, which either runs on
\* from its caller or is resumed from asyncio.sleep once the delay is over.
\* The lock is free whenever a coroutine gets here, so "async with" does not
\* suspend, and nothing inside the block does: the pass is one step.  With
\* a token the call returns into the caller (tasks[p].ret) without giving
\* up the event loop; without one it sleeps outside the lock.
WaitForToken(p) ==
    /\ tasks[p].pc = "wait_for_token"
    /\ \/ cpu = p
       \/ cpu = "none" /\ tasks[p].wake > 0 /\ now >= tasks[p].wake
    /\ global_limiter._lock = "none"
    /\ IF token_available(1)
       THEN /\ global_limiter' = take_token(1)
            /\ granted' = granted + 1
            /\ tasks' = [tasks EXCEPT ![p].pc = tasks[p].ret, ![p].wake = 0]
            /\ cpu' = p
       ELSE /\ global_limiter' = refilled
            /\ tasks' = [tasks EXCEPT ![p].wake = now + wait_seconds]
            /\ cpu' = "none"
            /\ UNCHANGED granted
    /\ UNCHANGED <<store, proposal, response, lastCommit, ops, lastMerge, now, invoked>>

\* A coroutine calls await global_limiter.wait_for_token() and nothing else.
CallWaitForToken(p) ==
    /\ cpu = "none"
    /\ tasks[p].pc = "idle"
    /\ ops < MaxGateCalls
    /\ tasks' = [tasks EXCEPT ![p].pc = "wait_for_token", ![p].ret = "granted"]
    /\ cpu' = p
    /\ ops' = ops + 1
    /\ UNCHANGED <<store, proposal, response, lastCommit, lastMerge, gate>>

\* The caller has its token and finishes.
GateReturn(p) ==
    /\ cpu = p
    /\ tasks[p].pc = "granted"
    /\ tasks' = [tasks EXCEPT ![p] = GateIdle]
    /\ cpu' = "none"
    /\ UNCHANGED <<store, proposal, response, lastCommit, ops, lastMerge, gate>>

\* acquire(tokens): "async with self._lock" and the first pass of "while
\* True".  With enough tokens the call returns; without, the loop body ends
\* in "pass" and the coroutine goes round again with the lock held and
\* without an await.
Acquire(p, tokens) ==
    /\ cpu = "none"
    /\ tasks[p].pc = "idle"
    /\ ops < MaxGateCalls
    /\ global_limiter._lock = "none"
    /\ IF token_available(tokens)
       THEN /\ global_limiter' = take_token(tokens)
            /\ granted' = granted + tokens
            /\ UNCHANGED <<tasks, cpu>>
       ELSE /\ global_limiter' = [refilled EXCEPT !._lock = p]
            /\ tasks' = [tasks EXCEPT ![p].pc = "acquire", ![p].tokens = tokens]
            /\ cpu' = p
            /\ UNCHANGED granted
    /\ ops' = ops + 1
    /\ UNCHANGED <<store, proposal, response, lastCommit, lastMerge, now, invoked>>

\* A further pass of acquire's loop.
AcquireLoop(p) ==
    /\ cpu = p
    /\ tasks[p].pc = "acquire"
    /\ IF token_available(tasks[p].tokens)
       THEN /\ global_limiter' = [take_token(tasks[p].tokens) EXCEPT !._lock = "none"]
            /\ granted' = granted + tasks[p].tokens
            /\ tasks' = [tasks EXCEPT ![p] = GateIdle]
            /\ cpu' = "none"
       ELSE /\ global_limiter' = refilled
            /\ UNCHANGED <<tasks, cpu, granted>>
    /\ UNCHANGED <<store, proposal, response, lastCommit, ops, lastMerge, now, invoked>>

\* A second passes on the monotonic clock.
Tick ==
    /\ now < MaxTime
    /\ now' = now + 1
    /\ UNCHANGED <<store, tasks, cpu, proposal, response, lastCommit, ops, lastMerge,
                   global_limiter, granted, invoked>>

\* The clock reaches the time coroutine p sleeps until.
SleepOver(p) ==
    /\ tasks[p].pc \in {"backoff", "wait_for_token"}
    /\ tasks[p].wake > now
    /\ now' = tasks[p].wake
    /\ UNCHANGED <<store, tasks, cpu, proposal, response, lastCommit, ops, lastMerge,
                   global_limiter, granted, invoked>>

\* ------------------------- _analyze_crystallization_batch, call by call
\* BATCH_SIZE = 15
BATCH_SIZE == 15

\* A field the classifier left out of an entry.
Missing == "<missing>"

\* item.get(field, default)
Get(value, default) == IF value = Missing THEN default ELSE value

\* item.get('type', '').upper()
Upper(type) ==
    CASE type = "merge" -> "MERGE"
      [] type = "conflict" -> "CONFLICT"
      [] type = "link" -> "LINK"
      [] type = Missing -> ""
      [] OTHER -> type

\* batch_items of n concepts, each with label and one candidate (k1, of
\* label L1); the ids are 1..n.
BatchItems(n) ==
    [i \in 1..n |-> [id |-> i,
                     label |-> IF i % 2 = 1 THEN "L1" ELSE "L2",
                     candidates |-> <<[id |-> "k1", label |-> "L1"]>>]]

\* chunks = [batch_items[i:i + BATCH_SIZE] for i in range(0, len(batch_items), BATCH_SIZE)]
Chunks(batch_items) ==
    [c \in 1..((Len(batch_items) + BATCH_SIZE - 1) \div BATCH_SIZE) |->
        SubSeq(batch_items, (c - 1) * BATCH_SIZE + 1, Min(c * BATCH_SIZE, Len(batch_items)))]

\* item.get('source_id') of an entry without one (the ids of the batch
\* items are 1, 2, ...).
NoSourceId == 0

\* An element of the parsed answer that is no JSON object (a string, a
\* number): item.get raises AttributeError on it.
NotAnObject == [text |-> "<not an object>"]

\* The elements of an answer the dispatch loop gets through: those before
\* the first one that is no object.
dispatched(connections) ==
    IF \E i \in DOMAIN connections : connections[i] = NotAnObject
    THEN SubSeq(connections, 1,
                (CHOOSE i \in DOMAIN connections :
                    /\ connections[i] = NotAnObject
                    /\ \A j \in 1..(i - 1) : connections[j] # NotAnObject) - 1)
    ELSE connections

\* The entries a classifier can put in its answer for a chunk: a type in
\* any spelling, the first item of the chunk as source, a candidate or an
\* unknown id as target, with or without a reason; an entry with nothing
\* but its type; an element that is no object.
ChunkVerdicts(chunk) ==
    {[type |-> ty, source_id |-> chunk[1].id, target_id |-> t, reason |-> rs, relation |-> Missing] :
        ty \in {"MERGE", "CONFLICT", "link", "OTHER"}, t \in {"k1", "zz"}, rs \in {"r1", Missing}}
    \cup {[type |-> "MERGE", source_id |-> NoSourceId, target_id |-> Missing,
           reason |-> Missing, relation |-> Missing],
          NotAnObject}

\* What awaiting llm.ainvoke and json.loads can end in: a list of entries,
\* or an exception whose text holds "429" or does not.
ClassifierOutcomes(chunk) ==
    {[kind |-> "answer", connections |-> c] : c \in SeqsUpTo(ChunkVerdicts(chunk), MaxVerdicts)}
    \cup {[kind |-> "429", connections |-> <<>>], [kind |-> "error", connections |-> <<>>]}

\* results = {"synapses": [], "merges": [], "conflicts": []}
EmptyResults == [merges |-> <<>>, conflicts |-> <<>>, synapses |-> <<>>]

\* source_label / target_label: the labels of the chunk item and of its
\* candidate with the ids of the entry, else "Unknown".
source_label(chunk, item) ==
    IF \E i \in DOMAIN chunk : chunk[i].id = item.source_id
    THEN chunk[CHOOSE i \in DOMAIN chunk : chunk[i].id = item.source_id].label
    ELSE "Unknown"

target_label(chunk, item) ==
    IF \E i \in DOMAIN chunk : chunk[i].id = item.source_id
    THEN LET cands == chunk[CHOOSE i \in DOMAIN chunk : chunk[i].id = item.source_id].candidates
         IN  IF \E j \in DOMAIN cands : cands[j].id = item.target_id
             THEN cands[CHOOSE j \in DOMAIN cands : cands[j].id = item.target_id].label
             ELSE "Unknown"
    ELSE "Unknown"

\* results['merges'].append({...})
merge_entry(chunk, item) ==
    [source_id |-> item.source_id, source_label |-> source_label(chunk, item),
     target_id |-> item.target_id, target_label |-> target_label(chunk, item),
     reason |-> Get(item.reason, "AI proposed merge"), status |-> "auto_merge"]

\* A conflict filed without what the classifier said about it.
conflict_entry_default_reason(chunk, item) ==
    [seed_text |-> source_label(chunk, item),
     conflicting_evidence |-> target_label(chunk, item),
     reason |-> "Logical contradiction"]

\* results['conflicts'].append({...})
conflict_entry(chunk, item) ==
    [seed_text |-> source_label(chunk, item),
     conflicting_evidence |-> target_label(chunk, item),
     reason |-> Get(item.reason, "Logical contradiction")]

\* results['synapses'].append({...})
synapse_entry(chunk, item) ==
    [source_id |-> item.source_id, source_label |-> source_label(chunk, item),
     target_label |-> target_label(chunk, item),
     relation |-> RelationType(Get(item.relation, "RELATED_TO")),
     confidence |-> "high", target_id |-> item.target_id]

RECURSIVE handle_connections(_, _, _)
\* 3. Handle Connections (Polymorphic): for item in connections, appending
\* to results in place; an element without .get ends the loop in the
\* except branch with what was appended so far.
handle_connections(results, chunk, connections) ==
    IF connections = <<>> \/ Head(connections) = NotAnObject THEN results
    ELSE LET item == Head(connections)
             item_type == Upper(item.type)
             next == CASE item_type = "MERGE" ->
                            [results EXCEPT !.merges = Append(@, merge_entry(chunk, item))]
                       [] item_type = "CONFLICT" ->
                            [results EXCEPT !.conflicts = Append(@, conflict_entry(chunk, item))]
                       [] item_type = "LINK" ->
                            [results EXCEPT !.synapses = Append(@, synapse_entry(chunk, item))]
                       [] OTHER -> results
         IN  handle_connections(next, chunk, Tail(connections))

\* An except branch that starts the results over.
results_dropped(results) == EmptyResults

\* except Exception as e: print(...): results is left as it is.
results_after_error(results) == results

\* The analysis is called with n concepts that all have candidates.
AnalyzeStart(p, n) ==
    /\ cpu = "none"
    /\ tasks[p].pc = "idle"
    /\ ops < MaxOps
    /\ tasks' = [tasks EXCEPT ![p] = [pc |-> "next_chunk", ret |-> "ainvoke", wake |-> 0, tokens |-> 0,
                                      chunks |-> Chunks(BatchItems(n)), i |-> 1,
                                      results |-> EmptyResults, calls |-> <<>>]]
    /\ cpu' = p
    /\ ops' = ops + 1
    /\ UNCHANGED <<store, proposal, response, lastCommit, lastMerge, gate>>

\* for i, chunk in enumerate(chunks): the prompt is built and the Rate Gate
\* entered; after the last chunk (or a break) the results are returned.
AnalyzeNextChunk(p) ==
    /\ cpu = p
    /\ tasks[p].pc = "next_chunk"
    /\ IF tasks[p].i > Len(tasks[p].chunks)
       THEN /\ response' = [op |-> "analyze", sid |-> "none", code |-> 200, writes |-> <<>>,
                            results |-> tasks[p].results, calls |-> tasks[p].calls,
                            chunks |-> tasks[p].chunks]
            /\ tasks' = [tasks EXCEPT ![p] = GateIdle]
            /\ cpu' = "none"
       ELSE /\ tasks' = [tasks EXCEPT ![p].pc = "wait_for_token"]
            /\ UNCHANGED <<response, cpu>>
    /\ UNCHANGED <<store, proposal, lastCommit, ops, lastMerge, gate>>

\* response = await llm.ainvoke([...]) after the token was granted.
AnalyzeInvoke(p) ==
    /\ cpu = p
    /\ tasks[p].pc = "ainvoke"
    /\ "chunks" \in DOMAIN tasks[p]
    /\ invoked' = invoked + 1
    /\ tasks' = [tasks EXCEPT ![p].pc = "await_llm"]
    /\ cpu' = "none"
    /\ UNCHANGED <<store, proposal, response, lastCommit, ops, lastMerge, global_limiter, now, granted>>

\* The classifier call of the chunk ends: an answer is dispatched; an
\* exception is printed and, when its text holds "429", the loop is left
\* (break), else the loop goes on with the next chunk.
AnalyzeAnswer(p) ==
    /\ cpu = "none"
    /\ tasks[p].pc = "await_llm"
    /\ "chunks" \in DOMAIN tasks[p]
    /\ LET t == tasks[p]
           chunk == t.chunks[t.i]
       IN  \E outcome \in ClassifierOutcomes(chunk) :
              tasks' = [tasks EXCEPT
                          ![p].pc = "next_chunk",
                          ![p].calls = Append(@, [chunk |-> t.i, kind |-> outcome.kind,
                                                  connections |-> outcome.connections]),
                          ![p].results = IF outcome.kind = "answer"
                                         THEN handle_connections(@, chunk, outcome.connections)
                                         ELSE results_after_error(@),
                          ![p].i = IF outcome.kind = "429" THEN Len(t.chunks) + 1 ELSE @ + 1]
    /\ cpu' = p
    /\ UNCHANGED <<store, proposal, response, lastCommit, ops, lastMerge, gate>>

\* ------------------------------------------------ classifier call sites
\* max_retries = 5, base_delay = 2 (extract_session_concepts)
max_retries == 5
base_delay == 2

RECURSIVE Pow2(_)
Pow2(n) == IF n = 0 THEN 1 ELSE 2 * Pow2(n - 1)

\* A coroutine that has reached "await global_limiter.wait_for_token()" in
\* one of the call sites, with left classifier calls still to make.
SiteTask(site, left) ==
    [pc |-> "wait_for_token", ret |-> "ainvoke", wake |-> 0, tokens |-> 0,
     site |-> site, left |-> left, attempt |-> 0, outcomes |-> <<>>, delays |-> <<>>]

\* The call sites that pass the gate once and invoke the classifier once.
\* _llm_merge_judge(concept_a, concept_b) and generate_scaffold(concept_id)
\* on a concept without cached representations.
SingleCallSites == {"_llm_merge_judge", "generate_scaffold", "extract_session_concepts"}

CallSite(p, site) ==
    /\ cpu = "none"
    /\ tasks[p].pc = "idle"
    /\ ops < MaxOps
    /\ tasks' = [tasks EXCEPT ![p] = SiteTask(site, 1)]
    /\ cpu' = p
    /\ ops' = ops + 1
    /\ UNCHANGED <<store, proposal, response, lastCommit, lastMerge, gate>>

\* chat_session up to the conflict check: detect_conflicts finds
\* relevant_seeds UserSeeds (LIMIT 3) and returns at once when there is none.
ChatSession(p, relevant_seeds) ==
    /\ cpu = "none"
    /\ tasks[p].pc = "idle"
    /\ ops < MaxOps
    /\ tasks' = [tasks EXCEPT ![p] =
                    IF relevant_seeds = 0
                    THEN [SiteTask("detect_conflicts", 0) EXCEPT !.pc = "generate_answer"]
                    ELSE SiteTask("detect_conflicts", relevant_seeds)]
    /\ cpu' = p
    /\ ops' = ops + 1
    /\ UNCHANGED <<store, proposal, response, lastCommit, lastMerge, gate>>

\* response = await llm.ainvoke(...) right after the token was granted.
SiteInvoke(p) ==
    /\ cpu = p
    /\ tasks[p].pc = "ainvoke"
    /\ "site" \in DOMAIN tasks[p]
    /\ invoked' = invoked + 1
    /\ tasks' = [tasks EXCEPT ![p].pc = "await_llm"]
    /\ cpu' = "none"
    /\ UNCHANGED <<store, proposal, response, lastCommit, ops, lastMerge, global_limiter, now, granted>>

\* The classifier call ends with an answer, with a rate-limit error or with
\* another error.  _llm_merge_judge and generate_scaffold end either way;
\* detect_conflicts goes on with its next seed, and an exception leaves it
\* for the handler of chat_session.
SiteAnswer(p, outcome) ==
    /\ cpu = "none"
    /\ tasks[p].pc = "await_llm"
    /\ "site" \in DOMAIN tasks[p]
    /\ tasks[p].site # "extract_session_concepts"
    /\ LET t == tasks[p]
       IN  CASE t.site = "detect_conflicts" ->
                   /\ tasks' = [tasks EXCEPT
                                   ![p].left = IF outcome = "ok" THEN @ - 1 ELSE 0,
                                   ![p].pc = IF outcome = "ok" /\ t.left > 1
                                             THEN "wait_for_token" ELSE "generate_answer"]
                   /\ cpu' = p
             [] OTHER ->
                   /\ tasks' = [tasks EXCEPT ![p] = GateIdle]
                   /\ cpu' = "none"
    /\ UNCHANGED <<store, proposal, response, lastCommit, ops, lastMerge, gate>>

\* How an attempt of extract_session_concepts can end: with parseable
\* JSON, or with an exception (the provider's rate limit, another provider
\* error, json.loads on unparseable text) whose text holds "429" or not;
\* the text of a JSONDecodeError names the position of the error, so it
\* does for some outputs.
ExtractOutcomes ==
    {[cause |-> "ok", text_has_429 |-> FALSE],
     [cause |-> "rate_limit", text_has_429 |-> TRUE],
     [cause |-> "other", text_has_429 |-> FALSE],
     [cause |-> "unparseable", text_has_429 |-> FALSE],
     [cause |-> "unparseable", text_has_429 |-> TRUE]}

\* if "429" in error_str or "rate limit" in error_str
retriable(outcome) == outcome.cause # "ok" /\ outcome.text_has_429

\* What extract_session_concepts returned, with the attempts it made.
ExtractReturned(t, result) ==
    [op |-> "extract_session_concepts", sid |-> "none", code |-> 200, writes |-> <<>>,
     result |-> result, outcomes |-> t.outcomes, delays |-> t.delays]

\* An attempt ends: return json.loads(content); or, on an error taken for
\* a rate limit, await asyncio.sleep(base_delay * 2 ** attempt); or
\* return {}.
ExtractAnswer(p, outcome) ==
    /\ cpu = "none"
    /\ tasks[p].pc = "await_llm"
    /\ "site" \in DOMAIN tasks[p]
    /\ tasks[p].site = "extract_session_concepts"
    /\ LET t == [tasks[p] EXCEPT !.outcomes = Append(@, outcome)]
           delay == base_delay * Pow2(t.attempt)
       IN  IF retriable(outcome)
           THEN /\ tasks' = [tasks EXCEPT ![p] = [t EXCEPT !.pc = "backoff",
                                                          !.wake = now + delay,
                                                          !.delays = Append(@, delay)]]
                /\ UNCHANGED response
           ELSE /\ tasks' = [tasks EXCEPT ![p] = GateIdle]
                /\ response' = ExtractReturned(t, IF outcome.cause = "ok" THEN "data" ELSE "{}")
    /\ UNCHANGED <<store, cpu, proposal, lastCommit, ops, lastMerge, gate>>

\* await asyncio.sleep(delay) is over: await global_limiter.wait_for_token()
ExtractBackoff(p) ==
    /\ cpu = "none"
    /\ tasks[p].pc = "backoff"
    /\ now >= tasks[p].wake
    /\ tasks' = [tasks EXCEPT ![p].pc = "wait_for_token", ![p].ret = "retry", ![p].wake = 0]
    /\ cpu' = p
    /\ UNCHANGED <<store, proposal, response, lastCommit, ops, lastMerge, gate>>

\* for attempt in range(max_retries): the next attempt, or "Max retries
\* exceeded" and return {}.
ExtractRetry(p) ==
    /\ cpu = p
    /\ tasks[p].pc = "retry"
    /\ IF tasks[p].attempt + 1 < max_retries
       THEN /\ tasks' = [tasks EXCEPT ![p].pc = "ainvoke", ![p].attempt = @ + 1]
            /\ UNCHANGED <<cpu, response>>
       ELSE /\ tasks' = [tasks EXCEPT ![p] = GateIdle]
            /\ response' = ExtractReturned(tasks[p], "{}")
            /\ cpu' = "none"
    /\ UNCHANGED <<store, proposal, lastCommit, ops, lastMerge, gate>>

\* chat_session, Generate Answer: response = await llm.ainvoke([...]),
\* reached from the conflict check without passing the gate.
GenerateAnswer(p) ==
    /\ cpu = p
    /\ tasks[p].pc = "generate_answer"
    /\ invoked' = invoked + 1
    /\ tasks' = [tasks EXCEPT ![p].pc = "await_answer"]
    /\ cpu' = "none"
    /\ UNCHANGED <<store, proposal, response, lastCommit, ops, lastMerge, global_limiter, now, granted>>

\* The answer arrives (or the call raises) and chat_session ends.
ChatReturn(p) ==
    /\ cpu = "none"
    /\ tasks[p].pc = "await_answer"
    /\ tasks' = [tasks EXCEPT ![p] = GateIdle]
    /\ UNCHANGED <<store, cpu, proposal, response, lastCommit, ops, lastMerge, gate>>

\* ------------------------------------------------------------ specification
Init ==
    /\ Sessions = [s \in SessionIds |-> IF s = "s1" THEN "active" ELSE "absent"]
    /\ Seeds = [k \in {"e1"} |-> [session_id |-> "s1", highlight |-> "t0"]]
    /\ UserSeeds = [k \in DraftIds |->
                       CASE k = "d1" -> DraftDoc("s1", "L1", "t0", 0)
                         [] k = "d2" -> DraftDoc("s1", "L2", "t0", NoEmb)
                         [] OTHER -> RelDoc("s1", "d1", "d2", "related to")]
    /\ \E ek \in {0, 1} :
          Concepts = [k \in {"src", "k1", "k2"} |->
                         CASE k = "src" -> SourceDoc("src")
                           [] k = "k1" -> ConceptDoc("L1", "", 0, 95, "none", "none")
                           [] OTHER -> ConceptDoc("L2", "", ek, InitialMastery, "none", "none")]
    /\ Relationships = SetToBag({Edge("src", "e1", "HAS_PART")})
    /\ ConceptSessionLinks = {}
    /\ nextKey = 0
    /\ tasks = [p \in Procs |-> IdleTask]
    /\ cpu = "none"
    /\ proposal = [s \in SessionIds |-> NoProposal]
    /\ response = NoResponse
    /\ lastCommit = NoCommit
    /\ ops = 0
    /\ lastMerge = NoMerge
    /\ InitGate

\* The crystallization wizard and the ingestion that runs beside it.
Next ==
    \/ \E s \in SessionIds : Preview(s)
    \/ \E s \in SessionIds : CommitFromPreview(s)
    \/ \E data \in ExtractionData, s \in SessionIds : StoreExtractionResults(data, "src", s)

Spec == Init /\ [][Next]_vars

\* The state after a preview of s1 in which the classifier answered both
\* MERGE and LINK for the pair of draft d1 and its candidate k1.
InitPreviewed ==
    /\ Sessions = [s \in SessionIds |-> IF s = "s1" THEN "active" ELSE "absent"]
    /\ Seeds = [k \in {"e1"} |-> [session_id |-> "s1", highlight |-> "t0"]]
    /\ UserSeeds = [k \in DraftIds |->
                       CASE k = "d1" -> DraftDoc("s1", "L1", "t0", 0)
                         [] k = "d2" -> DraftDoc("s1", "L2", "t0", NoEmb)
                         [] OTHER -> RelDoc("s1", "d1", "d2", "related to")]
    /\ \E ek \in {0, 1} :
          Concepts = [k \in {"src", "k1", "k2"} |->
                         CASE k = "src" -> SourceDoc("src")
                           [] k = "k1" -> ConceptDoc("L1", "", 0, 95, "none", "none")
                           [] OTHER -> ConceptDoc("L2", "", ek, InitialMastery, "none", "none")]
    /\ Relationships = SetToBag({Edge("src", "e1", "HAS_PART")})
    /\ ConceptSessionLinks = {}
    /\ nextKey = 0
    /\ tasks = [p \in Procs |-> IdleTask]
    /\ cpu = "none"
    /\ LET keys == SeqOfSet(SessionDrafts(UserSeeds, "s1"))
           nodes == [i \in DOMAIN keys |-> Node(keys[i], UserSeeds[keys[i]])]
           connections == <<Verdict("MERGE", "d1", "k1", "RELATED_TO"),
                            Verdict("LINK", "d1", "k1", "RELATED_TO")>>
       IN  proposal = [s \in SessionIds |->
                          IF s = "s1"
                          THEN [merges |-> results_of(connections, "MERGE"),
                                conflicts |-> results_of(connections, "CONFLICT"),
                                synapses |-> results_of(connections, "LINK"),
                                new_nodes |-> nodes]
                          ELSE NoProposal]
    /\ response = Response("preview", "s1", 200)
    /\ lastCommit = NoCommit
    /\ ops = 0
    /\ lastMerge = NoMerge
    /\ InitGate

\* The review that follows such a preview: commits of what the user approves.
NextPreviewed ==
    \E s \in SessionIds : CommitFromPreview(s)

SpecPreviewed == InitPreviewed /\ [][NextPreviewed]_vars

\* Graph editing on sessions that a commit may have crystallized.
NextEdit ==
    \/ \E s \in SessionIds : CommitFromPreview(s)
    \/ \E s \in SessionIds, k \in DraftIds, u \in SeedUpdates : UpdateSeed(s, k, u)
    \/ \E s \in SessionIds, k \in DraftIds : DeleteSeed(s, k, FALSE)
    \/ \E s \in SessionIds, k \in DraftIds : UpdateEdge(s, k, "has part")
    \/ \E s \in SessionIds, k \in DraftIds : DeleteEdge(s, k)
    \/ \E s \in SessionIds, b \in DraftIds : CreateEdge(s, "d1", b, "related to")

SpecEdit == Init /\ [][NextEdit]_vars

\* Content edits on sessions that a commit may have crystallized.
NextContent ==
    \/ \E s \in SessionIds : CommitFromPreview(s)
    \/ \E s \in SessionIds, item \in ItemIds, c \in Texts : UpdateSessionContent(s, item, c)

SpecContent == Init /\ [][NextContent]_vars

\* Spaced-repetition reviews beside the crystallization wizard.
NextReview ==
    \/ \E s \in SessionIds : Preview(s)
    \/ \E s \in SessionIds : CommitFromPreview(s)
    \/ \E c \in AssessIds, d \in AssessDifficulties, mastered \in BOOLEAN : AssessConcept(c, d, mastered)

SpecReview == Init /\ [][NextReview]_vars

\* The store of a running installation: seeds of two sessions under one
\* source, two extracted concepts of which k1 is linked to session s1; or,
\* with an empty graph, the seeds alone (ingest_document stores the Seed
\* before the source node, whose UPSERT failed).
InitRetrieve ==
    /\ Sessions = [s \in SessionIds |-> "active"]
    /\ Seeds = [k \in {"e1", "e2", "e3", "g1"} |->
                   [session_id |-> IF k = "g1" THEN "s2" ELSE "s1",
                    highlight |-> IF k = "e2" THEN "t1" ELSE "t0"]]
    /\ UserSeeds = <<>>
    /\ \/ /\ Concepts = [k \in {"src", "k1", "k2"} |->
                            CASE k = "src" -> SourceDoc("src")
                              [] k = "k1" -> ConceptDoc("L1", "", 0, NoMastery, "none", "none")
                              [] OTHER -> ConceptDoc("L2", "", 1, NoMastery, "none", "none")]
          /\ Relationships = SetToBag({Edge("src", k, "HAS_PART") : k \in {"e1", "e2", "e3", "g1"}}
                                      \cup {Edge("src", "k1", "MENTIONS"), Edge("src", "k2", "MENTIONS")})
          /\ ConceptSessionLinks = {<<"k1", "s1">>}
       \/ /\ Concepts = <<>>
          /\ Relationships = EmptyBag
          /\ ConceptSessionLinks = {}
    /\ nextKey = 0
    /\ tasks = [p \in Procs |-> IdleTask]
    /\ cpu = "none"
    /\ proposal = [s \in SessionIds |-> NoProposal]
    /\ response = NoResponse
    /\ lastCommit = NoCommit
    /\ ops = 0
    /\ lastMerge = NoMerge
    /\ InitGate

\* Chat retrieval.  A query writes nothing, so a later query meets the store
\* of the first: one query per behaviour covers them all.
NextRetrieve ==
    /\ ops = 0
    /\ \E with_session \in BOOLEAN, scored \in ScoredConcepts, session_hits \in SessionSeedResults,
          seed_scored \in ScoredSeeds, failing \in FailureCases :
             HybridRetrieve(with_session, scored, session_hits, seed_scored, failing)

SpecRetrieve == InitRetrieve /\ [][NextRetrieve]_vars

\* ------------------------------------------------------------- reranking
MaxRerankLen == 3

\* The states of the cross-encoder: loaded and answering, switched off
\* (RERANK_ENABLED), not loaded (get_reranker returns None), raising.
RerankerStates == {"loaded", "disabled", "unavailable", "raises"}

\* Lists of retrieved items to rerank.
RerankInputs ==
    SeqsUpTo({Item("k1", 900, "concept_vector"), Item("e1", 500, "session_seeds")}, MaxRerankLen)

\* rerank_results(query, results, top_k) called on a list of results.
RerankResults(results, top_k, reranker) ==
    /\ CallAdmitted
    /\ \E scores \in RerankScores(results) :
          response' = [op |-> "rerank_results", sid |-> "none", code |-> 200, writes |-> <<>>,
                       sorted |-> results, top_k |-> top_k,
                       results |-> rerank_results(results, top_k, reranker # "loaded", scores),
                       failed |-> IF reranker = "loaded" THEN {} ELSE {"rerank"}]
    /\ ops' = ops + 1
    /\ UNCHANGED <<store, tasks, cpu, proposal, lastCommit, lastMerge, gate>>

\* Retrieval next to direct calls of the reranking step.
NextRerank ==
    \/ NextRetrieve
    \/ /\ ops = 0
       /\ \E results \in RerankInputs, top_k \in {2, 5, RERANK_FINAL_K}, reranker \in RerankerStates :
             RerankResults(results, top_k, reranker)

SpecRerank == InitRetrieve /\ [][NextRerank]_vars

\* Background consolidation beside ingestion and commits.
NextConsolidate ==
    \/ \E data \in ExtractionData, s \in SessionIds : StoreExtractionResults(data, "src", s)
    \/ \E p \in Procs, s \in SessionIds : EndSession(p, s)
    \/ \E p \in Procs : Consolidate(p)
    \/ \E s \in SessionIds : Preview(s)
    \/ \E s \in SessionIds : CommitFromPreview(s)

SpecConsolidate == Init /\ [][NextConsolidate]_vars

\* The state after _store_extraction_results has stored concept k1 of
\* source src for session s1.
InitExtracted ==
    /\ Sessions = [s \in SessionIds |-> IF s = "s1" THEN "none" ELSE "absent"]
    /\ Seeds = [k \in {"e1"} |-> [session_id |-> "s1", highlight |-> "t0"]]
    /\ UserSeeds = [k \in DraftIds |->
                       CASE k = "d1" -> DraftDoc("s1", "L1", "t0", 0)
                         [] k = "d2" -> DraftDoc("s1", "L2", "t0", NoEmb)
                         [] OTHER -> RelDoc("s1", "d1", "d2", "related to")]
    /\ \E ek \in {0, 1} :
          Concepts = [k \in {"src", "k1", "k2"} |->
                         CASE k = "src" -> SourceDoc("src")
                           [] k = "k1" -> ConceptDoc("L1", "", 0, 95, "none", "none")
                           [] OTHER -> ConceptDoc("L2", "", ek, InitialMastery, "none", "none")]
    /\ Relationships = SetToBag({Edge("src", "e1", "HAS_PART"), Edge("src", "k1", "MENTIONS")})
    /\ ConceptSessionLinks = {<<"k1", "s1">>}
    /\ nextKey = 0
    /\ tasks = [p \in Procs |-> IdleTask]
    /\ cpu = "none"
    /\ proposal = [s \in SessionIds |-> NoProposal]
    /\ response = Response("store_extraction", "s1", 200)
    /\ lastCommit = NoCommit
    /\ ops = 0
    /\ lastMerge = NoMerge
    /\ InitGate

\* A preview held by the UI while the session is ended and consolidated.
NextStale ==
    \/ \E s \in SessionIds : Preview(s)
    \/ \E p \in Procs, s \in SessionIds : EndSession(p, s)
    \/ \E p \in Procs : Consolidate(p)
    \/ \E s \in SessionIds : CommitFromPreview(s)

SpecStale == InitExtracted /\ [][NextStale]_vars

\* ------------------------------------------- merge-only specification
MergeEdgeUniverse == {Edge(f, t, ty) : f \in MergeNodes, t \in MergeNodes, ty \in MergeTypes}

InitMerge ==
    /\ Concepts = [k \in MergeNodes |-> ConceptDoc(k, "", 0, InitialMastery, "none", "none")]
    /\ \E E \in SUBSET MergeEdgeUniverse :
          /\ Cardinality(E) <= MaxInitEdges
          /\ Relationships = SetToBag(E)
    /\ ConceptSessionLinks = {}
    /\ lastMerge = NoMerge
    /\ InitGate
    /\ Sessions = [s \in SessionIds |-> "active"]
    /\ Seeds = <<>>
    /\ UserSeeds = <<>>
    /\ nextKey = 0
    /\ tasks = [p \in Procs |-> IdleTask]
    /\ cpu = "none"
    /\ proposal = [s \in SessionIds |-> NoProposal]
    /\ response = NoResponse
    /\ lastCommit = NoCommit
    /\ ops = 0

Merge(source_id, target_id) ==
    /\ MergeInStore(source_id, target_id)
    /\ lastMerge' = [source |-> source_id, target |-> target_id, before |-> Relationships]
    /\ UNCHANGED <<Sessions, Seeds, UserSeeds, nextKey, tasks, cpu, proposal, response, lastCommit, ops, gate>>

NextMerge ==
    \E a \in MergeNodes, b \in MergeNodes : a # b /\ Merge(a, b)

SpecMerge == InitMerge /\ [][NextMerge]_vars

\* ------------------------------------------- rate limiter specifications
\* An empty store and two coroutines that use the limiter.
InitLimiter ==
    /\ Sessions = [s \in SessionIds |-> "absent"]
    /\ Seeds = <<>>
    /\ UserSeeds = <<>>
    /\ Concepts = <<>>
    /\ Relationships = EmptyBag
    /\ ConceptSessionLinks = {}
    /\ nextKey = 0
    /\ tasks = [p \in Procs |-> GateIdle]
    /\ cpu = "none"
    /\ proposal = [s \in SessionIds |-> NoProposal]
    /\ response = NoResponse
    /\ lastCommit = NoCommit
    /\ ops = 0
    /\ lastMerge = NoMerge
    /\ InitGate

\* Coroutines calling wait_for_token side by side while time passes.
NextGate ==
    \/ \E p \in Procs : CallWaitForToken(p)
    \/ \E p \in Procs : WaitForToken(p)
    \/ \E p \in Procs : GateReturn(p)
    \/ Tick

SpecGate == InitLimiter /\ [][NextGate]_vars

\* The same under the scheduling of the event loop: a coroutine that can
\* run is run, and the clock reaches every deadline a sleeper has set.
NextGateFair ==
    \/ NextGate
    \/ \E p \in Procs : SleepOver(p)

FairGate ==
    \A p \in Procs : /\ WF_vars(WaitForToken(p))
                      /\ WF_vars(GateReturn(p))
                      /\ WF_vars(SleepOver(p))

SpecGateFair == InitLimiter /\ [][NextGateFair]_vars /\ FairGate

\* The same with callers of acquire.
NextAcquire ==
    \/ \E p \in Procs : CallWaitForToken(p)
    \/ \E p \in Procs : WaitForToken(p)
    \/ \E p \in Procs : GateReturn(p)
    \/ \E p \in Procs, tokens \in {1, 2} : Acquire(p, tokens)
    \/ \E p \in Procs : AcquireLoop(p)
    \/ Tick

SpecAcquire == InitLimiter /\ [][NextAcquire]_vars

\* ------------------------------------------ batch analysis specification
\* The limiter as created, or after the burst of five grants that empties it.
InitBatch ==
    /\ Sessions = [s \in SessionIds |-> "absent"]
    /\ Seeds = <<>>
    /\ UserSeeds = <<>>
    /\ Concepts = <<>>
    /\ Relationships = EmptyBag
    /\ ConceptSessionLinks = {}
    /\ nextKey = 0
    /\ tasks = [p \in Procs |-> GateIdle]
    /\ cpu = "none"
    /\ proposal = [s \in SessionIds |-> NoProposal]
    /\ response = NoResponse
    /\ lastCommit = NoCommit
    /\ ops = 0
    /\ lastMerge = NoMerge
    /\ now = 0
    /\ invoked = 0
    /\ \E burst \in {0, 5} :
          /\ global_limiter = [TokenBucket(0) EXCEPT !._tokens = @ - burst * Token]
          /\ granted = burst

\* One analysis, of no concept, of one, or of sixteen (two chunks); the
\* clock is followed while the analysis sleeps at the gate.
NextBatch ==
    \/ ops = 0 /\ \E n \in {0, 1, BATCH_SIZE + 1} : AnalyzeStart("p1", n)
    \/ AnalyzeNextChunk("p1")
    \/ WaitForToken("p1")
    \/ AnalyzeInvoke("p1")
    \/ AnalyzeAnswer("p1")
    \/ tasks["p1"].wake > now /\ Tick

SpecBatch == InitBatch /\ [][NextBatch]_vars

\* ------------------------------------------- call sites specification
\* Two coroutines running the classifier call sites side by side.
NextSites ==
    \/ \E p \in Procs, site \in SingleCallSites : CallSite(p, site)
    \/ \E p \in Procs, relevant_seeds \in {0, 2} : ChatSession(p, relevant_seeds)
    \/ \E p \in Procs : AnalyzeStart(p, 1)
    \/ \E p \in Procs : AnalyzeNextChunk(p)
    \/ \E p \in Procs : WaitForToken(p)
    \/ \E p \in Procs : AnalyzeInvoke(p)
    \/ \E p \in Procs : AnalyzeAnswer(p)
    \/ \E p \in Procs : SiteInvoke(p)
    \/ \E p \in Procs, outcome \in {"ok", "429", "error"} : SiteAnswer(p, outcome)
    \/ \E p \in Procs, outcome \in ExtractOutcomes : ExtractAnswer(p, outcome)
    \/ \E p \in Procs : ExtractBackoff(p)
    \/ \E p \in Procs : ExtractRetry(p)
    \/ \E p \in Procs : GenerateAnswer(p)
    \/ \E p \in Procs : ChatReturn(p)
    \/ Tick

SpecSites == InitLimiter /\ [][NextSites]_vars

\* ------------------------------------------- extraction specification
\* One call of extract_session_concepts; the clock moves from one sleep
\* to the next.
NextExtract ==
    \/ ops = 0 /\ CallSite("p1", "extract_session_concepts")
    \/ WaitForToken("p1")
    \/ SiteInvoke("p1")
    \/ \E outcome \in ExtractOutcomes : ExtractAnswer("p1", outcome)
    \/ SleepOver("p1")
    \/ ExtractBackoff("p1")
    \/ ExtractRetry("p1")

SpecExtract == InitBatch /\ [][NextExtract]_vars

\* ------------------------------------------------------------------ claims

C3_NoSelfLoopAfterMerge ==
    [][NoSelfLoops(Relationships) => NoSelfLoops(Relationships')]_vars

\* C1: after a successful commit of a session's preview as the preview
\* returned it (its proposed merges approved, its new_nodes passed on), every
\* draft concept of the session is either promoted (a CRYSTALLIZED_AS edge
\* leaves it) or merged (its CONTRIBUTES_TO edges reach exactly one target),
\* never both and never neither.
C1_PromotedXorMerged ==
    (/\ response.op = "commit"
     /\ response.code = 200
     /\ proposal[response.sid] # NoProposal
     /\ lastCommit.approved_merges = proposal[response.sid].merges
     /\ lastCommit.new_nodes = proposal[response.sid].new_nodes)
    => \A d \in SessionDrafts(UserSeeds, response.sid) :
          LET out == {e \in BagToSet(Relationships) : e.from = d}
              promoted == \E e \in out : e.type = "CRYSTALLIZED_AS"
              targets == {e.to : e \in {x \in out : x.type = "CONTRIBUTES_TO"}}
          IN  \/ promoted /\ targets = {}
              \/ ~promoted /\ Cardinality(targets) = 1

\* C4: no commit_crystallization call stores a second edge with the (from,
\* to, type) triple of a stored edge: a graph without duplicate triples has
\* none after the commit.
C4_NoDuplicateEdges ==
    [][ (/\ ops' # ops
         /\ response'.op = "commit"
         /\ NoDuplicateTriples(Relationships))
        => NoDuplicateTriples(Relationships') ]_vars

\* C5: in every state reached by ingestion, consolidation and commits, both
\* endpoints of every edge are stored documents; no edge names a concept
\* that a merge of the same consolidation run deleted.
C5_EndpointsExist ==
    \A e \in BagToSet(Relationships) :
        /\ e.from \in DOMAIN Concepts \cup DOMAIN UserSeeds \cup DOMAIN Seeds
        /\ e.to \in DOMAIN Concepts \cup DOMAIN UserSeeds \cup DOMAIN Seeds

\* C6: a commit_crystallization call that arrives while a consolidation of
\* the same session is suspended at a classifier call is rejected: it does
\* not answer success.
C6_OverlappingCommitRejected ==
    [][ (/\ ops' # ops
         /\ response'.op = "commit"
         /\ \E p \in Procs : /\ tasks[p].sid = response'.sid
                             /\ tasks[p].pc \in {"await_judge", "await_batch"})
        => response'.code # 200 ]_vars

\* C7: crystallized is terminal: no step changes or removes the status of a
\* session whose status is crystallized.
C7_CrystallizedIsTerminal ==
    [][ \A s \in SessionIds :
           Sessions[s] = "crystallized" => Sessions'[s] = "crystallized" ]_vars

\* C8: every edit call (update_seed, delete_seed, update_edge, delete_edge,
\* create_edge) on a crystallized session is answered with an error and
\* leaves the draft nodes and draft edges as they were.
C8_CrystallizedDraftsImmutable ==
    [][ (/\ ops' # ops
         /\ response'.op \in {"update_seed", "delete_seed", "update_edge", "delete_edge", "create_edge"}
         /\ Sessions[response'.sid] = "crystallized")
        => (response'.code = 400 /\ UserSeeds' = UserSeeds) ]_vars

\* C9: update_session_content on a crystallized session, with an item id
\* that does not split into collection and key, or with a collection other
\* than Seeds and UserSeeds is answered with 400 and writes nothing.
C9_ContentEditRejected ==
    [][ \A s \in SessionIds, item \in ItemIds, c \in Texts :
           (/\ UpdateSessionContent(s, item, c)
            /\ \/ Sessions[s] = "crystallized"
               \/ Len(item) # 2
               \/ item[1] \notin {"Seeds", "UserSeeds"})
           => (response'.code = 400 /\ Seeds' = Seeds /\ UserSeeds' = UserSeeds) ]_vars

\* A content edit of a stored item was rejected on a crystallized session.
C9_Witness ==
    /\ response.op = "update_session_content"
    /\ response.code = 400
    /\ Sessions[response.sid] = "crystallized"
    /\ "d1" \in DOMAIN UserSeeds /\ "e1" \in DOMAIN Seeds

\* C10: re-running commit_crystallization with the arguments of the
\* complete run before it leaves the Concepts (and their mastery) and the
\* set of edges as that run left them.
C10_CommitRerunIsNoOp ==
    [][ (/\ ops' # ops
         /\ response'.op = "commit"
         /\ response.op = "commit"
         /\ response.code = 200
         /\ lastCommit' = lastCommit)
        => (Concepts' = Concepts /\ BagToSet(Relationships') = BagToSet(Relationships)) ]_vars

\* C11: preview_crystallization is read-only: whatever the classifier
\* answers, a preview call leaves every document, every edge and every
\* session status as it found them.
C11_PreviewReadOnly ==
    [][ (ops' # ops /\ response'.op = "preview")
        => /\ Concepts' = Concepts
           /\ Relationships' = Relationships
           /\ ConceptSessionLinks' = ConceptSessionLinks
           /\ UserSeeds' = UserSeeds
           /\ Seeds' = Seeds
           /\ Sessions' = Sessions ]_vars

\* A preview returned with a proposed synapse.
C11_Witness ==
    /\ response.op = "preview"
    /\ proposal[response.sid].synapses # <<>>

\* C12: a commit_crystallization or consolidate_session call that returns
\* success leaves the session crystallized, and the status update is the
\* last write of the call: no collection is written after Sessions.
C12_StatusIsLastWrite ==
    (response.op \in {"commit", "consolidate"} /\ response.code = 200)
    => /\ Sessions[response.sid] = "crystallized"
       /\ response.writes # <<>>
       /\ \A i \in DOMAIN response.writes :
              response.writes[i] = "Sessions" <=> i = Len(response.writes)

\* A commit with an approved synapse succeeded: it wrote the synapse edge
\* and marked the session last.
C12_Witness ==
    /\ response.op = "commit"
    /\ response.code = 200
    /\ lastCommit.approved_synapses # <<>>
    /\ Len(response.writes) > 1

\* C13: for each entry of new_nodes a commit_crystallization call creates
\* exactly one new Concept, which carries the label, text and embedding of
\* the draft; it maps the draft to that Concept and inserts exactly one
\* CRYSTALLIZED_AS edge from the draft to it.
C13_OneConceptPerNewNode ==
    [][ (ops' # ops /\ response'.op = "commit")
        => LET nn == lastCommit'.new_nodes
               created == DOMAIN Concepts' \ DOMAIN Concepts
               promotions == {e \in BagToSet(Relationships') :
                                 e.type = "CRYSTALLIZED_AS" /\ Relationships'[e] > CopiesIn(e, Relationships)}
           IN  /\ Cardinality(created) = Len(nn)
               /\ \A i \in DOMAIN nn :
                      LET mine == {k \in created : Concepts'[k].original_seed_id = nn[i].id}
                      IN  /\ Cardinality(mine) = 1
                          /\ \A k \in mine :
                                 /\ Concepts'[k].label = nn[i].label
                                 /\ Concepts'[k].definition = nn[i].text
                                 /\ Concepts'[k].emb = nn[i].emb
                                 /\ process_new_nodes(commit_start, nn, lastCommit'.sid).map[nn[i].id] = k
                                 /\ {e \in promotions : e.from = nn[i].id} = {Edge(nn[i].id, k, "CRYSTALLIZED_AS")}
                                 /\ Relationships'[Edge(nn[i].id, k, "CRYSTALLIZED_AS")] = 1 ]_vars

\* A commit promoted two drafts.
C13_Witness ==
    /\ response.op = "commit"
    /\ Len(lastCommit.new_nodes) = 2
    /\ \E e \in BagToSet(Relationships) : e.type = "CRYSTALLIZED_AS" /\ e.from = "d2"

\* C14: after a successful commit every draft passed as a new node exists
\* as exactly one Concept made from it with the draft's label, and that
\* Concept has status 'crystallized'.
C14_NewConceptCrystallized ==
    (response.op = "commit" /\ response.code = 200)
    => \A i \in DOMAIN lastCommit.new_nodes :
          LET node == lastCommit.new_nodes[i]
              made == {k \in DOMAIN Concepts :
                          /\ Concepts[k].original_seed_id = node.id
                          /\ Concepts[k].label = node.label}
          IN  /\ Cardinality(made) = 1
              /\ \A k \in made : Concepts[k].status = "crystallized"

\* C15: in every state the mastery of every Concept is at most 1.0,
\* whatever the number and order of approved merges and review assessments.
C15_MasteryAtMostOne ==
    \A k \in DOMAIN Concepts : Concepts[k].mastery <= MasteryCap

\* A review was assessed on a Concept that an approved merge had already
\* brought to the cap.
C15_Witness ==
    /\ response.op = "assess"
    /\ response.code = 200
    /\ lastCommit.approved_merges # <<>>
    /\ Concepts["k1"].mastery = MasteryCap

\* C16: a commit re-creates every relation of the session whose two ends
\* both resolve through the draft-to-global map to different global ids, as
\* an edge between the resolved ids with the same relation type (compared
\* without regard to case and to the spelling of spaces); it adds no
\* self-loop at a resolved id; and when no relation resolves at both ends
\* and no synapse is approved, it adds no edge besides the promotion and
\* contribution edges.
C16_EdgesMigrated ==
    [][ (ops' # ops /\ response'.op = "commit")
        => LET sid == lastCommit'.sid
               map == handle_merges(process_new_nodes(commit_start, lastCommit'.new_nodes, sid),
                                    lastCommit'.approved_merges).map
               added == {e \in BagToSet(Relationships') : Relationships'[e] > CopiesIn(e, Relationships)}
               rels == SessionRels(UserSeeds, sid)
               resolved == {r \in rels : /\ MapGet(map, UserSeeds[r].source_id) # "none"
                                         /\ MapGet(map, UserSeeds[r].target_id) # "none"}
           IN  /\ \A r \in resolved :
                      LET global_src == map[UserSeeds[r].source_id]
                          global_tgt == map[UserSeeds[r].target_id]
                      IN  global_src # global_tgt
                          => \E e \in added : /\ e.from = global_src
                                               /\ e.to = global_tgt
                                               /\ RelationType(e.type) = RelationType(UserSeeds[r].relation)
               /\ \A e \in added : e.from \in Range(map) => e.from # e.to
               /\ (resolved = {} /\ lastCommit'.approved_synapses = <<>>)
                  => \A e \in added : e.type \in {"CRYSTALLIZED_AS", "CONTRIBUTES_TO"} ]_vars

\* C17: after merge(source, target) no edge touches source, the source node
\* still exists and is marked merged-away, and no draft has been deleted.
C17_SourceNodeKept ==
    [][ LET source_id == lastMerge'.source
        IN  /\ \A e \in BagToSet(Relationships') : e.from # source_id /\ e.to # source_id
            /\ source_id \in DOMAIN Concepts'
            /\ Concepts'[source_id].status = "merged"
            /\ DOMAIN UserSeeds \subseteq DOMAIN UserSeeds' ]_vars

\* C18: a commit given an approved merge whose target Concept does not
\* exist writes no edge for that merge, still handles every other approved
\* merge, and reaches its end: it answers success and the session (when it
\* has a document) is crystallized.
C18_MissingNodeSkipped ==
    [][ (ops' # ops /\ response'.op = "commit")
        => LET sid == lastCommit'.sid
               merges == lastCommit'.approved_merges
               contribution(i) == Edge(merges[i].source_id, merges[i].target_id, "CONTRIBUTES_TO")
               missing == {i \in DOMAIN merges : merges[i].target_id \notin DOMAIN Concepts}
           IN  /\ \A i \in missing :
                      CopiesIn(contribution(i), Relationships') = CopiesIn(contribution(i), Relationships)
               /\ \A i \in DOMAIN merges \ missing :
                      CopiesIn(contribution(i), Relationships') > CopiesIn(contribution(i), Relationships)
               /\ Sessions[sid] # "absent"
                  => response'.code = 200 /\ Sessions'[sid] = "crystallized" ]_vars

\* C19: the territory of a hybrid_retrieve answer is a function of the
\* maximum score m of the primary concept candidates (source session_concept
\* or global_concept), 0 when there are none: 'known' for m >= 0.75,
\* 'uncertain' for 0.5 <= m < 0.75, 'new' for m < 0.5; and is_new_territory
\* is true exactly when the territory is 'new'.
C19_TerritoryThresholds ==
    (response.op = "hybrid_retrieve" /\ response.code = 200)
    => LET primary == {i \in DOMAIN response.concept_results :
                          response.concept_results[i].source \in {"session_concept", "global_concept"}}
           m == IF primary = {} THEN 0
                ELSE CHOOSE x \in {response.concept_results[i].score : i \in primary} :
                        \A i \in primary : x >= response.concept_results[i].score
       IN  /\ m >= 750 => response.territory = "known"
           /\ (500 <= m /\ m < 750) => response.territory = "uncertain"
           /\ m < 500 => response.territory = "new"
           /\ response.is_new_territory <=> response.territory = "new"

\* A query whose best primary concept scores exactly 0.75, with a graph
\* expansion item beside it.
C19_Witness ==
    /\ response.op = "hybrid_retrieve"
    /\ response.code = 200
    /\ response.territory = "known"
    /\ \A i \in DOMAIN response.concept_results : response.concept_results[i].score <= 750
    /\ \E i \in DOMAIN response.concepts : response.concepts[i].source = "graph_expansion"

C21_EmptyGraphZeroQuality ==
    (response.op = "hybrid_retrieve" /\ response.code = 200 /\ DOMAIN Concepts = {})
    => /\ response.concepts = <<>>
       /\ response.territory = "new"
       /\ response.context_quality = 0

\* C21, amended: with no Concepts in the store, every answer of
\* hybrid_retrieve has concepts = [] and territory = 'new', and its
\* context_quality is 0.0 exactly when it has no results at all (no seed
\* was retrieved either).
C21_EmptyGraphAnswer ==
    (response.op = "hybrid_retrieve" /\ response.code = 200 /\ DOMAIN Concepts = {})
    => /\ response.concepts = <<>>
       /\ response.territory = "new"
       /\ response.is_new_territory
       /\ response.context_quality = 0 <=> response.results = <<>>

\* A query of session s1 on a store without Concepts retrieved a seed of
\* the session and got a positive quality.
C21_Witness ==
    /\ response.op = "hybrid_retrieve"
    /\ response.code = 200
    /\ DOMAIN Concepts = {}
    /\ response.sid = "s1"
    /\ \E i \in DOMAIN response.results : response.results[i].source = "session_seeds"
    /\ response.context_quality > 0

\* C22: in every resolution path a draft-candidate pair with cosine
\* similarity above 0.98 is classified MERGE without asking the classifier:
\* a preview that returns lists every such pair of its new nodes among the
\* proposed merges.
C22_TierOneShortcut ==
    [][ (ops' # ops /\ response'.op = "preview")
        => LET p == proposal'[response'.sid]
           IN  \A i \in DOMAIN p.new_nodes :
                  p.new_nodes[i].emb # NoEmb
                  => \A k \in CandidateSet(Concepts, p.new_nodes[i].id, p.new_nodes[i].emb, AutoMergeScore) :
                        \E j \in DOMAIN p.merges :
                           /\ p.merges[j].source_id = p.new_nodes[i].id
                           /\ p.merges[j].target_id = k ]_vars

\* C24: hybrid_retrieve runs the global seed fallback exactly when the
\* session search, the concept search and the graph expansion together
\* produced fewer than 2 candidates; the fallback leaves out the seeds of
\* the current session, and every seed it finds (score above 0.6) is
\* appended to the results and to the seeds of the answer.  Otherwise the
\* answer holds no global seed.
C24_SparsityFallback ==
    (response.op = "hybrid_retrieve" /\ response.code = 200)
    => LET sid == response.sid
           eligible == {c \in response.seed_scored :
                           /\ sid = "none" \/ c.session_id # sid
                           /\ c.score > GlobalSeedThreshold}
           global_in(q) == {q[i].id : i \in {j \in DOMAIN q : q[j].source = "global_seeds"}}
           primary == Cardinality({i \in DOMAIN response.results :
                                      response.results[i].source # "global_seeds"})
       IN  /\ response.fallback <=> primary < SPARSE_THRESHOLD
           /\ global_in(response.results) = global_in(response.seeds)
           /\ \A id \in global_in(response.results) : sid = "none" \/ Seeds[id].session_id # sid
           /\ global_in(response.results) =
                 IF primary < SPARSE_THRESHOLD /\ "global_seeds" \notin response.failed
                 THEN {c.id : c \in eligible}
                 ELSE {}

\* A query of session s1 found one candidate in the session, so the
\* fallback ran: it appended a seed of another session and left out the
\* matching seed of s1.
C24_Witness ==
    /\ response.op = "hybrid_retrieve"
    /\ response.code = 200
    /\ response.sid = "s1"
    /\ response.total_so_far = 1
    /\ response.fallback
    /\ \E c \in response.seed_scored : c.id = "e1" /\ c.session_id = "s1" /\ c.score > GlobalSeedThreshold
    /\ \E i \in DOMAIN response.results :
          response.results[i].id = "g1" /\ response.results[i].source = "global_seeds"
    /\ \A i \in DOMAIN response.seeds : response.seeds[i].source = "global_seeds" => response.seeds[i].id # "e1"

\* C25: hybrid_retrieve never raises: whichever sub-step fails (query
\* embedding, session seed search, concept search, graph expansion, global
\* fallback, reranking), the call returns the structured answer, with no
\* result from the failed step.
C25_RetrieveNeverRaises ==
    response.op = "hybrid_retrieve"
    => /\ response.code = 200
       /\ "session_seeds" \in response.failed
          => \A i \in DOMAIN response.results : response.results[i].source # "session_seeds"
       /\ "concepts" \in response.failed => response.concepts = <<>>
       /\ "global_seeds" \in response.failed
          => \A i \in DOMAIN response.results : response.results[i].source # "global_seeds"

\* C26: when the Graph Store query of search_concepts, expand_graph or
\* search_global_seeds fails, the operation returns an empty list: the call
\* of hybrid_retrieve it belongs to still answers, with no item from that
\* search, and nothing has been written to the store.
C26_GeneratorsEmptyOnFailure ==
    [][ (ops' # ops /\ response'.op = "hybrid_retrieve"
            /\ response'.failed \cap {"concepts", "expansion", "global_seeds"} # {})
        => LET from(q, sources) == {i \in DOMAIN q : q[i].source \in sources}
           IN  /\ response'.code = 200
               /\ response'.writes = <<>>
               /\ store' = store
               /\ "concepts" \in response'.failed
                  => /\ response'.concept_results = <<>>
                     /\ from(response'.results, {"session_concept", "global_concept"}) = {}
               /\ "expansion" \in response'.failed
                  => /\ from(response'.results, {"graph_expansion"}) = {}
                     /\ from(response'.concepts, {"graph_expansion"}) = {}
               /\ "global_seeds" \in response'.failed
                  => /\ response'.global_seeds = <<>>
                     /\ from(response'.results, {"global_seeds"}) = {}
                     /\ from(response'.seeds, {"global_seeds"}) = {} ]_vars

\* The global seed search failed in a call that needed it (fewer than two
\* candidates) while a seed of another session matched the query: the
\* answer came back without it.
C26_Witness ==
    /\ response.op = "hybrid_retrieve"
    /\ response.code = 200
    /\ response.failed = {"global_seeds"}
    /\ response.fallback
    /\ \E c \in response.seed_scored : c.session_id # response.sid /\ c.score > GlobalSeedThreshold
    /\ response.global_seeds = <<>>

\* C27: under any interleaving of wait_for_token callers the token count
\* stays between 0 and capacity; a pass through the gate leaves the refilled
\* count (the old count plus elapsed * refill_rate, capped at capacity),
\* less one token when it grants; a grant is made only when the refilled
\* count holds at least one token; and the tokens granted never exceed the
\* initial capacity plus what the refills since then can have added, so no
\* token is granted twice.
C27_TokenCount ==
    /\ [](/\ 0 <= global_limiter._tokens
          /\ global_limiter._tokens <= capacity
          /\ granted * Token + global_limiter._tokens <= capacity + global_limiter.last_refill * refill_rate)
    /\ [][ LET elapsed == now - global_limiter.last_refill
               filled == Min(capacity, global_limiter._tokens + elapsed * refill_rate)
           IN  /\ granted' \in {granted, granted + 1}
               /\ granted' = granted + 1
                  => /\ filled >= Token
                     /\ global_limiter'._tokens = filled - Token
               /\ (granted' = granted /\ global_limiter' # global_limiter)
                  => global_limiter'._tokens = filled ]_vars

\* Both coroutines are asleep outside the lock on an empty bucket, after
\* the whole initial capacity has been granted.
C27_Witness ==
    /\ \A p \in Procs : tasks[p].pc = "wait_for_token" /\ tasks[p].wake > now
    /\ global_limiter._tokens < Token
    /\ granted >= 5

\* C28: a coroutine waiting for a token in acquire or wait_for_token
\* suspends only itself: it does not hold the limiter's lock during the
\* wait and leaves the event loop to the other coroutines.
C28_WaitingReleasesLock ==
    \A p \in Procs :
        \/ tasks[p].pc = "acquire"
        \/ tasks[p].pc = "wait_for_token" /\ tasks[p].wake > 0
        => /\ global_limiter._lock # p
           /\ cpu # p

\* C23: the analysis files every classifier entry it reads by its type alone: the
\* conflicts it returns are exactly the CONFLICT entries of the answers, in
\* order, each with the labels of its pair and its reason string (the
\* default text when the entry has none); as many merges as MERGE entries
\* and synapses as LINK entries are returned, each for the pair of its
\* entry, so that no entry shows up in a list of another type.
C23_VerdictDispatch ==
    response.op = "analyze"
    => LET calls == response.calls
           flat[j \in 0..Len(calls)] ==
               IF j = 0 THEN <<>>
               ELSE flat[j - 1] \o [k \in DOMAIN dispatched(calls[j].connections) |->
                                       [item |-> calls[j].connections[k],
                                        chunk |-> response.chunks[calls[j].chunk]]]
           entries == flat[Len(calls)]
           IsType(type) == LET Test(e) == Upper(e.item.type) = type IN SelectSeq(entries, Test)
           conflicts == IsType("CONFLICT")
           merges == IsType("MERGE")
           links == IsType("LINK")
           results == response.results
       IN  /\ Len(results.conflicts) = Len(conflicts)
           /\ \A k \in DOMAIN conflicts :
                 /\ results.conflicts[k].seed_text = source_label(conflicts[k].chunk, conflicts[k].item)
                 /\ results.conflicts[k].conflicting_evidence = target_label(conflicts[k].chunk, conflicts[k].item)
                 /\ results.conflicts[k].reason = IF conflicts[k].item.reason = Missing
                                                  THEN "Logical contradiction"
                                                  ELSE conflicts[k].item.reason
           /\ Len(results.merges) = Len(merges)
           /\ \A k \in DOMAIN merges :
                 /\ results.merges[k].source_id = merges[k].item.source_id
                 /\ results.merges[k].target_id = merges[k].item.target_id
           /\ Len(results.synapses) = Len(links)
           /\ \A k \in DOMAIN links :
                 /\ results.synapses[k].source_id = links[k].item.source_id
                 /\ results.synapses[k].target_id = links[k].item.target_id

\* An analysis returned a conflict with the reason the classifier gave and
\* proposed neither a merge nor a synapse.
C23_Witness ==
    /\ response.op = "analyze"
    /\ \E j \in DOMAIN response.calls :
          \E k \in DOMAIN response.calls[j].connections :
             /\ response.calls[j].connections[k] # NotAnObject
             /\ response.calls[j].connections[k].type = "CONFLICT"
             /\ response.calls[j].connections[k].reason = "r1"
    /\ \E k \in DOMAIN response.results.conflicts : response.results.conflicts[k].reason = "r1"
    /\ response.results.merges = <<>>
    /\ response.results.synapses = <<>>

\* C30: when the classifier signals a rate limit (429) for a batch, the
\* call for that batch is made again (up to a bounded number of attempts)
\* and the batches after it are still attempted: every batch of the
\* analysis has a classifier call, and a 429 is followed by another call
\* for the same batch unless that batch was already called more than once.
C30_RateLimitRetry ==
    response.op = "analyze"
    => LET calls == response.calls
           attempts(c) == Cardinality({j \in DOMAIN calls : calls[j].chunk = c})
       IN  /\ \A c \in DOMAIN response.chunks : attempts(c) >= 1
           /\ \A j \in DOMAIN calls :
                 calls[j].kind = "429"
                 => \/ j < Len(calls) /\ calls[j + 1].chunk = calls[j].chunk
                    \/ attempts(calls[j].chunk) > 1

\* C29: every classifier invocation, at every call site, comes after a
\* token grant of its own: the classifier has never been invoked more
\* often than the Rate Gate has granted tokens.
C29_InvocationsGated ==
    invoked <= granted

\* C31: when the classifier call of a batch fails, for whatever reason,
\* the analysis still returns, and what it returns begins with every merge,
\* conflict and synapse filed from the batches before the failed one.
C31_PartialFailureKeepsWork ==
    response.op = "analyze"
    => /\ response.code = 200
       /\ \A k \in DOMAIN response.calls :
             response.calls[k].kind # "answer"
             => LET calls == response.calls
                    flat[j \in 0..(k - 1)] ==
                        IF j = 0 THEN <<>>
                        ELSE flat[j - 1] \o dispatched(calls[j].connections)
                    before == flat[k - 1]
                    OfType(type) == LET Test(item) == Upper(item.type) = type
                                    IN  SelectSeq(before, Test)
                    Kept(list, items) ==
                        /\ Len(list) >= Len(items)
                        /\ \A i \in DOMAIN items :
                              /\ list[i].source_id = items[i].source_id
                              /\ list[i].target_id = items[i].target_id
                IN  /\ Kept(response.results.merges, OfType("MERGE"))
                    /\ Kept(response.results.synapses, OfType("LINK"))
                    /\ Len(response.results.conflicts) >= Len(OfType("CONFLICT"))

\* The first of two batches proposed a merge and the call for the second
\* failed: the merge was returned.
C31_Witness ==
    /\ response.op = "analyze"
    /\ Len(response.chunks) = 2
    /\ Len(response.calls) = 2
    /\ response.calls[1].kind = "answer"
    /\ response.calls[1].connections # <<>>
    /\ response.calls[1].connections[1] # NotAnObject
    /\ response.calls[1].connections[1].type = "MERGE"
    /\ response.calls[2].kind = "error"
    /\ Len(response.results.merges) = 1

\* C32: a malformed classifier answer for a batch (an element that is no
\* object, an entry without its ids) never makes the analysis fail and adds
\* no verdict at all: the merges, conflicts and synapses returned are as
\* many as the well-formed answers hold.
C32_MalformedAddsNothing ==
    response.op = "analyze"
    => LET calls == response.calls
           Malformed(c) == \E i \in DOMAIN c : c[i] = NotAnObject \/ c[i].source_id = NoSourceId
           Typed(c) == Cardinality({i \in DOMAIN c : Upper(c[i].type) \in {"MERGE", "CONFLICT", "LINK"}})
           total[j \in 0..Len(calls)] ==
               IF j = 0 THEN 0
               ELSE total[j - 1] + (IF Malformed(calls[j].connections) THEN 0
                                    ELSE Typed(calls[j].connections))
       IN  /\ response.code = 200
           /\ Len(response.results.merges) + Len(response.results.conflicts)
                 + Len(response.results.synapses) = total[Len(calls)]

\* C33: extract_session_concepts never raises, invokes the classifier at
\* most max_retries times, retries only after a rate-limit error, sleeping
\* 2, 4, 8, 16, 32 seconds, returns {} at once on any other error and on
\* unparseable output, and returns {} after the fifth rate-limited attempt.
C33_ExtractRetries ==
    response.op = "extract_session_concepts" =>
        LET outcomes == response.outcomes
            delays == response.delays
        IN  /\ response.code = 200
            /\ Len(outcomes) \in 1..max_retries
            /\ \A i \in 1..Len(outcomes) :
                  i < Len(outcomes) => outcomes[i].cause = "rate_limit"
            /\ \A i \in 1..Len(delays) : delays[i] = base_delay * Pow2(i - 1)
            /\ Len(delays) = Cardinality({i \in 1..Len(outcomes) : outcomes[i].cause = "rate_limit"})
            /\ response.result = "data" <=> outcomes[Len(outcomes)].cause = "ok"
            /\ response.result \in {"data", "{}"}

\* C34: the tiered policy, first match wins, for every draft-candidate
\* pair of a preview: similarity above 0.98, or else a label fuzzy ratio
\* above 90, gives MERGE whatever the classifier says; a pair at or below
\* 0.75 gets no proposal.
C34_TieredPolicy ==
    [][ (ops' # ops /\ response'.op = "preview")
        => LET p == proposal'[response'.sid]
               similarity(n, k) == CosineSimilarity(Concepts[k].emb, n.emb)
               proposed(q, n, k) == \E j \in DOMAIN q : q[j].source_id = n.id /\ q[j].target_id = k
           IN  \A i \in DOMAIN p.new_nodes : \A k \in DOMAIN Concepts :
                  LET n == p.new_nodes[i]
                  IN  /\ (n.emb # NoEmb /\ k # n.id /\ similarity(n, k) > AutoMergeScore)
                         => proposed(p.merges, n, k)
                      /\ (n.emb # NoEmb /\ k # n.id
                          /\ similarity(n, k) > BatchCandidateThreshold
                          /\ similarity(n, k) <= AutoMergeScore
                          /\ FuzzRatio(n.label, Concepts[k].label) > AutoMergeFuzzy)
                         => proposed(p.merges, n, k)
                      /\ (n.emb = NoEmb \/ similarity(n, k) <= BatchCandidateThreshold)
                         => /\ ~proposed(p.merges, n, k)
                            /\ ~proposed(p.synapses, n, k)
                            /\ ~proposed(p.conflicts, n, k) ]_vars

\* C35: rerank_results returns at most min(length of its input, top_k)
\* items, each of them an item of its input (none more often than the
\* input holds it), and returns the first top_k items in their given order
\* when the reranker is disabled, not available or raises; hybrid_retrieve
\* reranks only when it has more than 3 results.
C35_RerankNeverAdds ==
    LET count(q, x) == Cardinality({i \in DOMAIN q : q[i] = x})
        drawn_from(out, in, top_k) ==
            /\ Len(out) <= Min(Len(in), top_k)
            /\ \A i \in DOMAIN out : count(out, out[i]) <= count(in, out[i])
            /\ "rerank" \in response.failed => out = Take(in, top_k)
    IN  /\ response.op = "rerank_results"
           => drawn_from(response.results, response.sorted, response.top_k)
        /\ (response.op = "hybrid_retrieve" /\ response.code = 200)
           => IF Len(response.sorted) > 3
              THEN /\ drawn_from(response.results, response.sorted, RERANK_FINAL_K)
                   /\ drawn_from(response.concepts, response.concepts_found, 5)
              ELSE /\ response.results = response.sorted
                   /\ response.concepts = response.concepts_found

\* rerank_results has cut a list of different items to top_k while the
\* reranker was failing.
C35_Witness ==
    /\ response.op = "rerank_results"
    /\ "rerank" \in response.failed
    /\ Len(response.sorted) > response.top_k
    /\ \E i, j \in DOMAIN response.sorted : response.sorted[i] # response.sorted[j]
    /\ response.results = Take(response.sorted, response.top_k)

\* C36: no node id appears more than once in the 'results' of
\* hybrid_retrieve, nor in its 'concepts', also when graph expansion finds
\* a concept the concept search has found.
C36_ResultsDeduplicated ==
    (response.op = "hybrid_retrieve" /\ response.code = 200)
    => LET one_each(q) == \A i, j \in DOMAIN q : q[i].id = q[j].id => i = j
       IN  one_each(response.results) /\ one_each(response.concepts)

\* C37: with time advancing and finitely many calls, every call of
\* wait_for_token is granted a token and returns, and no coroutine that
\* has given up the event loop (asleep, or done) holds the limiter's lock.
C37_EveryCallGranted ==
    /\ [](cpu = "none" => global_limiter._lock = "none")
    /\ \A p \in Procs : (tasks[p].pc = "wait_for_token") ~> (tasks[p].pc = "granted")

\* A call that found the bucket empty after the first burst and went to
\* sleep has reached its deadline, and the bucket holds its token.
C37_Witness ==
    \E p \in Procs :
       /\ tasks[p].pc = "wait_for_token"
       /\ tasks[p].wake > 0
       /\ now >= tasks[p].wake
       /\ granted >= capacity \div Token
       /\ token_available(1)

\* C38: every merge and every synapse the analysis of a preview returns
\* names as source a concept of a batch sent to the classifier and as
\* target one of the candidates offered with that concept.
C38_ProposalsNameOfferedPairs ==
    response.op = "analyze"
    => LET offered(source_id, target_id) ==
               \E c \in DOMAIN response.chunks : \E i \in DOMAIN response.chunks[c] :
                  /\ response.chunks[c][i].id = source_id
                  /\ \E j \in DOMAIN response.chunks[c][i].candidates :
                        response.chunks[c][i].candidates[j].id = target_id
       IN  /\ \A k \in DOMAIN response.results.merges :
                offered(response.results.merges[k].source_id, response.results.merges[k].target_id)
           /\ \A k \in DOMAIN response.results.synapses :
                offered(response.results.synapses[k].source_id, response.results.synapses[k].target_id)

\* C39: commit_crystallization writes no synapse edge from a concept to
\* itself, also when the source draft of an approved synapse was merged
\* into the concept the synapse names as target: a commit adds no copy of
\* any edge whose from equals its to.
C39_NoSynapseSelfLoop ==
    [][ (ops' # ops /\ response'.op = "commit")
        => \A e \in BagToSet(Relationships') :
              e.from = e.to => CopiesIn(e, Relationships') <= CopiesIn(e, Relationships) ]_vars

\* C40: after _merge_concepts(source, target) every edge the source had to
\* a node X other than the target exists from the target to X, every edge
\* a node X other than the target had to the source exists from X to the
\* target, and every other edge is stored as often as before.
C40_MergePreservesRelations ==
    [][ lastMerge' # lastMerge
        => LET source == lastMerge'.source
               target == lastMerge'.target
               before == lastMerge'.before
           IN  \A e \in BagToSet(before) :
                  /\ (e.from = source /\ e.to # target)
                     => CopiesIn(Edge(target, e.to, e.type), Relationships') >= 1
                  /\ (e.to = source /\ e.from # target)
                     => CopiesIn(Edge(e.from, target, e.type), Relationships') >= 1
                  /\ (e.from # source /\ e.to # source)
                     => CopiesIn(e, Relationships') = CopiesIn(e, before) ]_vars

====
